---- MODULE Spec2Model ----
(***************************************************************************)
(* gomp: the condition builders (JoinOnWrapper, QueryWrapper,              *)
(* DeleteWrapper, InsertWrapper), their application to the execution       *)
(* context (gorm.DB) and the service facade.                               *)
(*                                                                         *)
(* Strings are sequences of one-character strings, so that formatting,     *)
(* trimming and concatenation are computed and not assumed.  A bound value *)
(* (Go's `any`) is a record: a scalar with its text, or a collection with  *)
(* its items.  A callback (a func taking the wrapper) is the sequence of    *)
(* calls it makes on the wrapper it is handed.                             *)
(***************************************************************************)
EXTENDS Integers, Sequences, FiniteSets, TLC

VARIABLES kind, hist, prev, budget, renders, jw, qw, dw, iw, uw, config, built, db, svc,
          threads, invoked, page

vars == <<kind, hist, prev, budget, renders, jw, qw, dw, iw, uw, config, built, db, svc,
          threads, invoked, page>>

(***************************************************************************)
(* Bounds.                                                                 *)
(***************************************************************************)
\* calls made on one builder in the chained-call specifications
MaxCalls == 3
\* calls made after the starting chain in the all-operators specification
MaxOpCalls == 1
\* calls of ServiceImpl.Page on one page
MaxPageCalls == 2
\* the rows a count reports, at most
MaxTotal == 2
\* the width of the integers of a Page in bits (int64 and, on the builds
\* modelled, int have 64; the model keeps the wrap-around at a width TLC can
\* enumerate)
IntBits == 5
\* calls made on the builder handed to the service facade
MaxSvcCalls == 2
\* calls made on one builder in the join specification
MaxJoinCalls == 2
\* calls made on one builder in the query-clauses specification
MaxQueryCalls == 2
\* times one builder is rendered (Build, Apply) in these two specifications
MaxRenders == 2
MaxNestCalls == 2
MaxThreads == 2
MaxChainCalls == 3

(***************************************************************************)
(* Strings and values.                                                     *)
(***************************************************************************)
WhiteSpace == {" ", "\t", "\n", "\r"}

RECURSIVE TrimLeft(_)
TrimLeft(s) ==
    IF s = <<>> THEN <<>>
    ELSE IF Head(s) \in WhiteSpace THEN TrimLeft(Tail(s)) ELSE s

RECURSIVE TrimRight(_)
TrimRight(s) ==
    IF s = <<>> THEN <<>>
    ELSE IF s[Len(s)] \in WhiteSpace THEN TrimRight(SubSeq(s, 1, Len(s) - 1)) ELSE s

\* strings.TrimSpace
TrimSpace(s) == TrimRight(TrimLeft(s))

\* the number of characters of s that are ch
RECURSIVE CountChar(_, _)
CountChar(s, ch) ==
    IF s = <<>> THEN 0
    ELSE (IF Head(s) = ch THEN 1 ELSE 0) + CountChar(Tail(s), ch)

\* strings.HasPrefix
HasPrefix(s, p) == Len(p) <= Len(s) /\ SubSeq(s, 1, Len(p)) = p

\* strings.Contains
Contains(s, p) == \E i \in 1..(Len(s) - Len(p) + 1) : SubSeq(s, i, i + Len(p) - 1) = p

Scalar(text) == [list |-> FALSE, s |-> text, items |-> <<>>]
Collection(items) == [list |-> TRUE, s |-> <<>>, items |-> items]

\* s without its last element
Front(s) == IF s = <<>> THEN <<>> ELSE SubSeq(s, 1, Len(s) - 1)

\* a call of a builder method: its name, its string arguments, its value
\* arguments, the variadic include flag and the variadic callbacks
Call(m, strs, vals, condition, fns) ==
    [m |-> m, s |-> strs, v |-> vals, condition |-> condition, fns |-> fns]

\* `if len(condition) > 0 && !condition[0] { return w }`
Skipped(condition) == Len(condition) > 0 /\ ~condition[1]

(***************************************************************************)
(* JoinOnWrapper (QueryWrapper.go).                                        *)
(***************************************************************************)
NewJoinOnWrapper == [conditions |-> <<>>, or |-> FALSE]

\* JW_addCondition recording every node with AND
JW_addCondition_alwaysAnd(w, query, args) ==
    IF TrimSpace(query) = <<>>
    THEN [w EXCEPT !.or = FALSE]
    ELSE [conditions |-> Append(w.conditions,
                                [query |-> query, args |-> args, isOr |-> FALSE]),
          or |-> FALSE]

\* variant: a blank fragment leaves the wrapper as it is
JW_addCondition_blankKeepsOr(w, query, args) ==
    IF TrimSpace(query) = <<>>
    THEN w
    ELSE [conditions |-> Append(w.conditions,
                                [query |-> query, args |-> args, isOr |-> w.or]),
          or |-> FALSE]

JW_addCondition(w, query, args) ==
    IF TrimSpace(query) = <<>>
    THEN [w EXCEPT !.or = FALSE]
    ELSE [conditions |-> Append(w.conditions,
                                [query |-> query, args |-> args, isOr |-> w.or]),
          or |-> FALSE]

\* variant: the loop writes the connector before every node, the first included
RECURSIVE JW_BuildFrom_leading(_, _)
JW_BuildFrom_leading(conds, i) ==
    IF i > Len(conds) THEN [clause |-> <<>>, args |-> <<>>]
    ELSE LET c == conds[i]
             sep == IF c.isOr THEN <<" ", "O", "R", " ">>
                              ELSE <<" ", "A", "N", "D", " ">>
             rest == JW_BuildFrom_leading(conds, i + 1)
         IN [clause |-> sep \o c.query \o rest.clause,
             args |-> (IF Len(c.args) > 0 THEN c.args ELSE <<>>) \o rest.args]

\* variant: the loop puts the parameters of a group behind all the others
RECURSIVE JW_BuildFrom_groupsLast(_, _)
JW_BuildFrom_groupsLast(conds, i) ==
    IF i > Len(conds) THEN [clause |-> <<>>, args |-> <<>>]
    ELSE LET c == conds[i]
             sep == IF i > 1
                    THEN (IF c.isOr THEN <<" ", "O", "R", " ">>
                                    ELSE <<" ", "A", "N", "D", " ">>)
                    ELSE <<>>
             rest == JW_BuildFrom_groupsLast(conds, i + 1)
         IN [clause |-> sep \o c.query \o rest.clause,
             args |-> IF HasPrefix(c.query, <<"(">>) THEN rest.args \o c.args
                      ELSE c.args \o rest.args]

\* the loop of Build over conditions[i..]
RECURSIVE JW_BuildFrom(_, _)
JW_BuildFrom(conds, i) ==
    IF i > Len(conds) THEN [clause |-> <<>>, args |-> <<>>]
    ELSE LET c == conds[i]
             sep == IF i > 1
                    THEN (IF c.isOr THEN <<" ", "O", "R", " ">>
                                    ELSE <<" ", "A", "N", "D", " ">>)
                    ELSE <<>>
             rest == JW_BuildFrom(conds, i + 1)
         IN [clause |-> sep \o c.query \o rest.clause,
             args |-> (IF Len(c.args) > 0 THEN c.args ELSE <<>>) \o rest.args]

\* variant: a wrapper with no conditions builds an always-true clause
JW_Build_defaultTrue(w) ==
    IF Len(w.conditions) = 0 THEN [clause |-> <<"1", " ", "=", " ", "1">>, args |-> <<>>]
    ELSE JW_BuildFrom(w.conditions, 1)

JW_Build(w) ==
    IF Len(w.conditions) = 0 THEN [clause |-> <<>>, args |-> <<>>]
    ELSE JW_BuildFrom(w.conditions, 1)

\* variant: Build hands the conditions over and leaves the receiver empty
JW_Build_w_drained(w) == [conditions |-> <<>>, or |-> FALSE]

\* the receiver after Build: Build assigns to no field of w
JW_Build_w(w) == w

JW_Raw(w, query, args) == JW_addCondition(w, query, args)

JW_Eq(w, column, val, condition) ==
    IF Skipped(condition) THEN w
    ELSE JW_addCondition(w, column \o <<" ", "=", " ", "?">>, <<val>>)

JW_EqColumn(w, leftColumn, rightColumn, condition) ==
    IF Skipped(condition) THEN w
    ELSE JW_addCondition(w, leftColumn \o <<" ", "=", " ">> \o rightColumn, <<>>)

JW_Ne(w, column, val, condition) ==
    IF Skipped(condition) THEN w
    ELSE JW_addCondition(w, column \o <<" ", "<", ">", " ", "?">>, <<val>>)

JW_Gt(w, column, val, condition) ==
    IF Skipped(condition) THEN w
    ELSE JW_addCondition(w, column \o <<" ", ">", " ", "?">>, <<val>>)

JW_Ge(w, column, val, condition) ==
    IF Skipped(condition) THEN w
    ELSE JW_addCondition(w, column \o <<" ", ">", "=", " ", "?">>, <<val>>)

JW_Lt(w, column, val, condition) ==
    IF Skipped(condition) THEN w
    ELSE JW_addCondition(w, column \o <<" ", "<", " ", "?">>, <<val>>)

JW_Le(w, column, val, condition) ==
    IF Skipped(condition) THEN w
    ELSE JW_addCondition(w, column \o <<" ", "<", "=", " ", "?">>, <<val>>)

JW_Like(w, column, val, condition) ==
    IF Skipped(condition) THEN w
    ELSE JW_addCondition(w, column \o <<" ", "L", "I", "K", "E", " ", "?">>,
                         <<Scalar(<<"%">> \o val.s \o <<"%">>)>>)

JW_LikeLeft(w, column, val, condition) ==
    IF Skipped(condition) THEN w
    ELSE JW_addCondition(w, column \o <<" ", "L", "I", "K", "E", " ", "?">>,
                         <<Scalar(<<"%">> \o val.s)>>)

JW_LikeRight(w, column, val, condition) ==
    IF Skipped(condition) THEN w
    ELSE JW_addCondition(w, column \o <<" ", "L", "I", "K", "E", " ", "?">>,
                         <<Scalar(val.s \o <<"%">>)>>)

JW_In(w, column, val, condition) ==
    IF Skipped(condition) THEN w
    ELSE JW_addCondition(w, column \o <<" ", "I", "N", " ", "(", "?", ")">>, <<val>>)

JW_NotIn(w, column, val, condition) ==
    IF Skipped(condition) THEN w
    ELSE JW_addCondition(w, column \o <<" ", "N", "O", "T", " ", "I", "N", " ", "(", "?", ")">>,
                         <<val>>)

JW_IsNull(w, column, condition) ==
    IF Skipped(condition) THEN w
    ELSE JW_addCondition(w, column \o <<" ", "I", "S", " ", "N", "U", "L", "L">>, <<>>)

JW_IsNotNull(w, column, condition) ==
    IF Skipped(condition) THEN w
    ELSE JW_addCondition(w, column \o <<" ", "I", "S", " ", "N", "O", "T", " ", "N", "U", "L", "L">>,
                         <<>>)

JW_Between(w, column, val1, val2, condition) ==
    IF Skipped(condition) THEN w
    ELSE JW_addCondition(w, column \o <<" ", "B", "E", "T", "W", "E", "E", "N", " ", "?",
                                        " ", "A", "N", "D", " ", "?">>,
                         <<val1, val2>>)

\* variant: NotBetween binds its bounds in the other order
JW_NotBetween_swapped(w, column, val1, val2, condition) ==
    IF Skipped(condition) THEN w
    ELSE JW_addCondition(w, column \o <<" ", "N", "O", "T", " ", "B", "E", "T", "W", "E", "E", "N",
                                        " ", "?", " ", "A", "N", "D", " ", "?">>,
                         <<val2, val1>>)

JW_NotBetween(w, column, val1, val2, condition) ==
    IF Skipped(condition) THEN w
    ELSE JW_addCondition(w, column \o <<" ", "N", "O", "T", " ", "B", "E", "T", "W", "E", "E", "N",
                                        " ", "?", " ", "A", "N", "D", " ", "?">>,
                         <<val1, val2>>)

RECURSIVE JW_Run(_, _)
RECURSIVE JW_Call(_, _)

\* variant: the group is attached even when it built nothing
JW_OrSub_noBlankCheck(w, sub) ==
    LET b == JW_Build(sub)
    IN JW_addCondition(w, <<"(">> \o b.clause \o <<")">>, b.args)

\* Or(conditions ...func); sub is the fresh wrapper after f(sub)
JW_OrSub(w, sub) ==
    LET b == JW_Build(sub)
    IN IF TrimSpace(b.clause) # <<>>
       THEN JW_addCondition(w, <<"(">> \o b.clause \o <<")">>, b.args)
       ELSE w

\* variant: Or() flips the pending connector
JW_Or_toggle(w, conditions) ==
    IF Len(conditions) > 0
    THEN JW_OrSub(w, JW_Run(NewJoinOnWrapper, conditions[1]))
    ELSE [w EXCEPT !.or = ~w.or]

\* variant: a plain Or() also turns the node before it into an OR node
JW_Or_markLast(w, conditions) ==
    IF Len(conditions) > 0
    THEN JW_OrSub(w, JW_Run(NewJoinOnWrapper, conditions[1]))
    ELSE IF Len(w.conditions) > 0
         THEN [w EXCEPT !.or = TRUE, !.conditions[Len(w.conditions)].isOr = TRUE]
         ELSE [w EXCEPT !.or = TRUE]

JW_Or(w, conditions) ==
    IF Len(conditions) > 0
    THEN JW_OrSub(w, JW_Run(NewJoinOnWrapper, conditions[1]))
    ELSE [w EXCEPT !.or = TRUE]

\* variant: the group is attached without its parentheses
JW_AndSub_noParens(w, sub) ==
    LET b == JW_Build(sub)
    IN IF TrimSpace(b.clause) # <<>>
       THEN JW_addCondition(w, b.clause, b.args)
       ELSE w

\* variant: the parent takes over the connector left pending in the callback
JW_AndSub_keepSubOr(w, sub) ==
    LET b == JW_Build(sub)
    IN IF TrimSpace(b.clause) # <<>>
       THEN [JW_addCondition(w, <<"(">> \o b.clause \o <<")">>, b.args) EXCEPT !.or = sub.or]
       ELSE w

\* variant: a group of one clause is attached without parentheses
JW_AndSub_parensIfMany(w, sub) ==
    LET b == JW_Build(sub)
    IN IF TrimSpace(b.clause) # <<>>
       THEN JW_addCondition(w, IF Len(sub.conditions) > 1
                               THEN <<"(">> \o b.clause \o <<")">>
                               ELSE b.clause, b.args)
       ELSE w

\* And(conditions ...func); sub is the fresh wrapper after f(sub)
JW_AndSub(w, sub) ==
    LET b == JW_Build(sub)
    IN IF TrimSpace(b.clause) # <<>>
       THEN JW_addCondition(w, <<"(">> \o b.clause \o <<")">>, b.args)
       ELSE w

JW_And(w, conditions) ==
    IF Len(conditions) > 0
    THEN JW_AndSub(w, JW_Run(NewJoinOnWrapper, conditions[1]))
    ELSE [w EXCEPT !.or = FALSE]

\* one call made by a callback on the JoinOnWrapper it was handed
JW_Call(w, c) ==
    CASE c.m = "Eq" -> JW_Eq(w, c.s[1], c.v[1], c.condition)
      [] c.m = "EqColumn" -> JW_EqColumn(w, c.s[1], c.s[2], c.condition)
      [] c.m = "Ne" -> JW_Ne(w, c.s[1], c.v[1], c.condition)
      [] c.m = "Gt" -> JW_Gt(w, c.s[1], c.v[1], c.condition)
      [] c.m = "Ge" -> JW_Ge(w, c.s[1], c.v[1], c.condition)
      [] c.m = "Lt" -> JW_Lt(w, c.s[1], c.v[1], c.condition)
      [] c.m = "Le" -> JW_Le(w, c.s[1], c.v[1], c.condition)
      [] c.m = "Like" -> JW_Like(w, c.s[1], c.v[1], c.condition)
      [] c.m = "LikeLeft" -> JW_LikeLeft(w, c.s[1], c.v[1], c.condition)
      [] c.m = "LikeRight" -> JW_LikeRight(w, c.s[1], c.v[1], c.condition)
      [] c.m = "In" -> JW_In(w, c.s[1], c.v[1], c.condition)
      [] c.m = "NotIn" -> JW_NotIn(w, c.s[1], c.v[1], c.condition)
      [] c.m = "IsNull" -> JW_IsNull(w, c.s[1], c.condition)
      [] c.m = "IsNotNull" -> JW_IsNotNull(w, c.s[1], c.condition)
      [] c.m = "Between" -> JW_Between(w, c.s[1], c.v[1], c.v[2], c.condition)
      [] c.m = "NotBetween" -> JW_NotBetween(w, c.s[1], c.v[1], c.v[2], c.condition)
      [] c.m = "Raw" -> JW_Raw(w, c.s[1], c.v)
      [] c.m = "Or" -> JW_Or(w, c.fns)
      [] c.m = "And" -> JW_And(w, c.fns)
      [] OTHER -> w

\* the body of a callback: its calls in order
JW_Run(w, f) ==
    IF f = <<>> THEN w ELSE JW_Run(JW_Call(w, Head(f)), Tail(f))

\* one run of the callback f, and the builder it was handed
Invocation(f, on) == [f |-> f, on |-> on]

\* The callbacks run while call c is made on a JoinOnWrapper, in the order
\* they start: Or and And run conditions[0] on `sub := NewJoinOnWrapper()`
\* before they return, and the calls of that callback run theirs.
RECURSIVE JW_runInvokes(_)
JW_callInvokes(c) ==
    IF c.m \in {"Or", "And"} /\ Len(c.fns) > 0
    THEN <<Invocation(c.fns[1], NewJoinOnWrapper)>> \o JW_runInvokes(c.fns[1])
    ELSE <<>>

JW_runInvokes(f) ==
    IF f = <<>> THEN <<>> ELSE JW_callInvokes(Head(f)) \o JW_runInvokes(Tail(f))

(***************************************************************************)
(* The execution context (gorm.DB) as the builders use it: the sequence of *)
(* the calls made on it.  A call carries a fragment with its parameters,   *)
(* or (isDB) the context a nested group was applied to.                    *)
(***************************************************************************)
DBCall(op, query, args, isDB, sub) ==
    [op |-> op, query |-> query, args |-> args, isDB |-> isDB, sub |-> sub]

\* db.Session(&gorm.Session{NewDB: true}): a context with no conditions
NewSession == <<>>

DB_Where(d, query, args) == Append(d, DBCall("Where", query, args, FALSE, <<>>))
DB_Or(d, query, args) == Append(d, DBCall("Or", query, args, FALSE, <<>>))
DB_WhereDB(d, subDB) == Append(d, DBCall("Where", <<>>, <<>>, TRUE, subDB))
DB_OrDB(d, subDB) == Append(d, DBCall("Or", <<>>, <<>>, TRUE, subDB))
DB_Select(d, columns) == Append(d, DBCall("Select", <<>>, <<Collection(columns)>>, FALSE, <<>>))
DB_Joins(d, query, args) == Append(d, DBCall("Joins", query, args, FALSE, <<>>))
DB_Order(d, value) == Append(d, DBCall("Order", value, <<>>, FALSE, <<>>))
DB_Group(d, name) == Append(d, DBCall("Group", name, <<>>, FALSE, <<>>))
DB_Having(d, query, args) == Append(d, DBCall("Having", query, args, FALSE, <<>>))
DB_Delete(d) == Append(d, DBCall("Delete", <<>>, <<>>, FALSE, <<>>))
DB_Updates(d, values) == Append(d, DBCall("Updates", <<>>, values, FALSE, <<>>))
DB_Create(d, values) == Append(d, DBCall("Create", <<>>, values, FALSE, <<>>))
DB_AddError(d, err) == Append(d, DBCall("AddError", err, <<>>, FALSE, <<>>))

\* a deferred closure and what it captured
Scope(k, isOr, query, args, f) ==
    [kind |-> k, isOr |-> isOr, query |-> query, args |-> args, f |-> f]

\* a func taking the JoinOnWrapper handed to a ...JoinOn method, or nil
NilBuilder == [nil |-> TRUE, calls |-> <<>>]
Builder(f) == [nil |-> FALSE, calls |-> f]

\* `for _, b := range builders { if b != nil { b(onWrapper) } }` from b i on
RECURSIVE JoinOn_builders(_, _, _)
JoinOn_builders(onWrapper, builders, i) ==
    IF i > Len(builders) THEN onWrapper
    ELSE JoinOn_builders(IF builders[i].nil THEN onWrapper
                         ELSE JW_Run(onWrapper, builders[i].calls), builders, i + 1)

\* the callbacks that loop runs: b is handed onWrapper as the builders
\* before it left it
RECURSIVE JoinOn_invokes(_, _, _)
JoinOn_invokes(onWrapper, builders, i) ==
    IF i > Len(builders) THEN <<>>
    ELSE IF builders[i].nil THEN JoinOn_invokes(onWrapper, builders, i + 1)
    ELSE <<Invocation(builders[i].calls, onWrapper)>>
         \o JW_runInvokes(builders[i].calls)
         \o JoinOn_invokes(JW_Run(onWrapper, builders[i].calls), builders, i + 1)

\* the callbacks the closure of a ...JoinOn method runs
JoinOn_scopeInvokes(sc) ==
    JoinOn_invokes(JW_EqColumn(NewJoinOnWrapper, sc.args[1].s, sc.args[2].s, <<>>), sc.f, 1)

\* variant: the ON builder is not seeded with the key equality
JoinOn_scope_noSeed(keyword, sc, d) ==
    LET onWrapper == JoinOn_builders(NewJoinOnWrapper, sc.f, 1)
        b == JW_Build(onWrapper)
    IN IF TrimSpace(b.clause) = <<>> THEN d
       ELSE DB_Joins(d, keyword \o <<" ", "J", "O", "I", "N", " ">> \o sc.query
                        \o <<" ", "O", "N", " ">> \o b.clause, b.args)

\* variant: the key equality is added after the callbacks ran
JoinOn_scope_seedLast(keyword, sc, d) ==
    LET ran == JoinOn_builders(NewJoinOnWrapper, sc.f, 1)
        onWrapper == JW_EqColumn(ran, sc.args[1].s, sc.args[2].s, <<>>)
        b == JW_Build(onWrapper)
    IN IF TrimSpace(b.clause) = <<>> THEN d
       ELSE DB_Joins(d, keyword \o <<" ", "J", "O", "I", "N", " ">> \o sc.query
                        \o <<" ", "O", "N", " ">> \o b.clause, b.args)

\* the closure of LeftJoinOn, RightJoinOn and InnerJoinOn (keyword: LEFT,
\* RIGHT, INNER): sc.query is the table, sc.args the two key columns and
\* sc.f the builders
JoinOn_scope(keyword, sc, d) ==
    LET seeded == JW_EqColumn(NewJoinOnWrapper, sc.args[1].s, sc.args[2].s, <<>>)
        onWrapper == JoinOn_builders(seeded, sc.f, 1)
        b == JW_Build(onWrapper)
    IN IF TrimSpace(b.clause) = <<>> THEN d
       ELSE DB_Joins(d, keyword \o <<" ", "J", "O", "I", "N", " ">> \o sc.query
                        \o <<" ", "O", "N", " ">> \o b.clause, b.args)

KwLeft == <<"L", "E", "F", "T">>
KwRight == <<"R", "I", "G", "H", "T">>
KwInner == <<"I", "N", "N", "E", "R">>

\* the closure of LeftJoin, RightJoin and InnerJoin
Join_scope(keyword, sc, d) ==
    DB_Joins(d, keyword \o <<" ", "J", "O", "I", "N", " ">> \o sc.query
                \o <<" ", "O", "N", " ">> \o sc.args[1].s \o <<" ", "=", " ">> \o sc.args[2].s,
             <<>>)

(***************************************************************************)
(* QueryWrapper (QueryWrapper.go).  scopes holds the deferred closures: each is  *)
(* recorded with what it captured and runs when Apply is called.           *)
(***************************************************************************)
NewQueryWrapper == [scopes |-> <<>>, selects |-> <<>>, or |-> FALSE]

\* addCondition: the pending connector is read, reset, and captured by the closure
QW_addCondition(w, query, args) ==
    [w EXCEPT !.or = FALSE,
              !.scopes = Append(w.scopes, Scope("cond", w.or, query, args, <<>>))]

\* Or(): the next condition uses OR; Or(f): a nested group, recorded for Apply
QW_Or(w, conditions) ==
    IF Len(conditions) > 0
    THEN [w EXCEPT !.or = FALSE,
                   !.scopes = Append(w.scopes, Scope("or", w.or, <<>>, <<>>, conditions[1]))]
    ELSE [w EXCEPT !.or = TRUE]

\* And(f): a nested group, recorded for Apply; in both cases w.or = false at the end
QW_And(w, conditions) ==
    LET w1 == IF Len(conditions) > 0
              THEN [w EXCEPT !.or = FALSE,
                             !.scopes = Append(w.scopes,
                                               Scope("and", w.or, <<>>, <<>>, conditions[1]))]
              ELSE w
    IN [w1 EXCEPT !.or = FALSE]

QW_Eq(w, column, val, condition) ==
    IF Skipped(condition) THEN w
    ELSE QW_addCondition(w, column \o <<" ", "=", " ", "?">>, <<val>>)

QW_Ne(w, column, val, condition) ==
    IF Skipped(condition) THEN w
    ELSE QW_addCondition(w, column \o <<" ", "<", ">", " ", "?">>, <<val>>)

QW_Gt(w, column, val, condition) ==
    IF Skipped(condition) THEN w
    ELSE QW_addCondition(w, column \o <<" ", ">", " ", "?">>, <<val>>)

QW_Ge(w, column, val, condition) ==
    IF Skipped(condition) THEN w
    ELSE QW_addCondition(w, column \o <<" ", ">", "=", " ", "?">>, <<val>>)

QW_Lt(w, column, val, condition) ==
    IF Skipped(condition) THEN w
    ELSE QW_addCondition(w, column \o <<" ", "<", " ", "?">>, <<val>>)

QW_Le(w, column, val, condition) ==
    IF Skipped(condition) THEN w
    ELSE QW_addCondition(w, column \o <<" ", "<", "=", " ", "?">>, <<val>>)

QW_Like(w, column, val, condition) ==
    IF Skipped(condition) THEN w
    ELSE QW_addCondition(w, column \o <<" ", "L", "I", "K", "E", " ", "?">>, <<Scalar(<<"%">> \o val.s \o <<"%">>)>>)

\* variant: LikeLeft puts the wildcard after the value
QW_LikeLeft_suffix(w, column, val, condition) ==
    IF Skipped(condition) THEN w
    ELSE QW_addCondition(w, column \o <<" ", "L", "I", "K", "E", " ", "?">>,
                         <<Scalar(val.s \o <<"%">>)>>)

QW_LikeLeft(w, column, val, condition) ==
    IF Skipped(condition) THEN w
    ELSE QW_addCondition(w, column \o <<" ", "L", "I", "K", "E", " ", "?">>, <<Scalar(<<"%">> \o val.s)>>)

QW_LikeRight(w, column, val, condition) ==
    IF Skipped(condition) THEN w
    ELSE QW_addCondition(w, column \o <<" ", "L", "I", "K", "E", " ", "?">>, <<Scalar(val.s \o <<"%">>)>>)

QW_In(w, column, val, condition) ==
    IF Skipped(condition) THEN w
    ELSE QW_addCondition(w, column \o <<" ", "I", "N", " ", "(", "?", ")">>, <<val>>)

QW_NotIn(w, column, val, condition) ==
    IF Skipped(condition) THEN w
    ELSE QW_addCondition(w, column \o <<" ", "N", "O", "T", " ", "I", "N", " ", "(", "?", ")">>, <<val>>)

QW_IsNull(w, column, condition) ==
    IF Skipped(condition) THEN w
    ELSE QW_addCondition(w, column \o <<" ", "I", "S", " ", "N", "U", "L", "L">>, <<>>)

QW_IsNotNull(w, column, condition) ==
    IF Skipped(condition) THEN w
    ELSE QW_addCondition(w, column \o <<" ", "I", "S", " ", "N", "O", "T", " ", "N", "U", "L", "L">>, <<>>)

QW_Between(w, column, val1, val2, condition) ==
    IF Skipped(condition) THEN w
    ELSE QW_addCondition(w, column \o
            <<" ", "B", "E", "T", "W", "E", "E", "N", " ", "?", " ", "A", "N", "D", " ", "?">>,
            <<val1, val2>>)

QW_NotBetween(w, column, val1, val2, condition) ==
    IF Skipped(condition) THEN w
    ELSE QW_addCondition(w, column \o
            <<" ", "N", "O", "T", " ", "B", "E", "T", "W", "E", "E", "N", " ", "?", " ", "A", "N", "D", " ", "?">>,
            <<val1, val2>>)

QW_OrderByDesc(w, column) ==
    [w EXCEPT !.scopes = Append(w.scopes, Scope("OrderByDesc", FALSE, column, <<>>, <<>>))]

QW_OrderByAsc(w, column) ==
    [w EXCEPT !.scopes = Append(w.scopes, Scope("OrderByAsc", FALSE, column, <<>>, <<>>))]

\* GroupBy(columns ...string)
QW_GroupBy(w, columns) ==
    [w EXCEPT !.scopes = Append(w.scopes, Scope("GroupBy", FALSE, <<>>,
                                [i \in 1..Len(columns) |-> Scalar(columns[i])], <<>>))]

QW_Having(w, query, args) ==
    [w EXCEPT !.scopes = Append(w.scopes, Scope("Having", FALSE, query, args, <<>>))]

\* variant: Select replaces the columns selected before
QW_Select_replace(w, columns) == [w EXCEPT !.selects = columns]

QW_Select(w, columns) == [w EXCEPT !.selects = w.selects \o columns]

QW_LeftJoin(w, table, leftColumn, rightColumn) ==
    [w EXCEPT !.scopes = Append(w.scopes, Scope("LeftJoin", FALSE, table,
                                <<Scalar(leftColumn), Scalar(rightColumn)>>, <<>>))]

QW_RightJoin(w, table, leftColumn, rightColumn) ==
    [w EXCEPT !.scopes = Append(w.scopes, Scope("RightJoin", FALSE, table,
                                <<Scalar(leftColumn), Scalar(rightColumn)>>, <<>>))]

QW_InnerJoin(w, table, leftColumn, rightColumn) ==
    [w EXCEPT !.scopes = Append(w.scopes, Scope("InnerJoin", FALSE, table,
                                <<Scalar(leftColumn), Scalar(rightColumn)>>, <<>>))]

QW_LeftJoinOn(w, table, leftColumn, rightColumn, builders) ==
    [w EXCEPT !.scopes = Append(w.scopes, Scope("LeftJoinOn", FALSE, table,
                                <<Scalar(leftColumn), Scalar(rightColumn)>>, builders))]

QW_RightJoinOn(w, table, leftColumn, rightColumn, builders) ==
    [w EXCEPT !.scopes = Append(w.scopes, Scope("RightJoinOn", FALSE, table,
                                <<Scalar(leftColumn), Scalar(rightColumn)>>, builders))]

QW_InnerJoinOn(w, table, leftColumn, rightColumn, builders) ==
    [w EXCEPT !.scopes = Append(w.scopes, Scope("InnerJoinOn", FALSE, table,
                                <<Scalar(leftColumn), Scalar(rightColumn)>>, builders))]

\* one call made by a callback on the QueryWrapper it was handed
QW_Call(w, c) ==
    CASE c.m = "Eq" -> QW_Eq(w, c.s[1], c.v[1], c.condition)
      [] c.m = "Ne" -> QW_Ne(w, c.s[1], c.v[1], c.condition)
      [] c.m = "Gt" -> QW_Gt(w, c.s[1], c.v[1], c.condition)
      [] c.m = "Ge" -> QW_Ge(w, c.s[1], c.v[1], c.condition)
      [] c.m = "Lt" -> QW_Lt(w, c.s[1], c.v[1], c.condition)
      [] c.m = "Le" -> QW_Le(w, c.s[1], c.v[1], c.condition)
      [] c.m = "Like" -> QW_Like(w, c.s[1], c.v[1], c.condition)
      [] c.m = "LikeLeft" -> QW_LikeLeft(w, c.s[1], c.v[1], c.condition)
      [] c.m = "LikeRight" -> QW_LikeRight(w, c.s[1], c.v[1], c.condition)
      [] c.m = "In" -> QW_In(w, c.s[1], c.v[1], c.condition)
      [] c.m = "NotIn" -> QW_NotIn(w, c.s[1], c.v[1], c.condition)
      [] c.m = "IsNull" -> QW_IsNull(w, c.s[1], c.condition)
      [] c.m = "IsNotNull" -> QW_IsNotNull(w, c.s[1], c.condition)
      [] c.m = "Between" -> QW_Between(w, c.s[1], c.v[1], c.v[2], c.condition)
      [] c.m = "NotBetween" -> QW_NotBetween(w, c.s[1], c.v[1], c.v[2], c.condition)
      [] c.m = "Or" -> QW_Or(w, c.fns)
      [] c.m = "And" -> QW_And(w, c.fns)
      [] c.m = "OrderByDesc" -> QW_OrderByDesc(w, c.s[1])
      [] c.m = "OrderByAsc" -> QW_OrderByAsc(w, c.s[1])
      [] c.m = "GroupBy" -> QW_GroupBy(w, c.s)
      [] c.m = "Having" -> QW_Having(w, c.s[1], c.v)
      [] c.m = "Select" -> QW_Select(w, c.s)
      [] c.m = "LeftJoin" -> QW_LeftJoin(w, c.s[1], c.s[2], c.s[3])
      [] c.m = "RightJoin" -> QW_RightJoin(w, c.s[1], c.s[2], c.s[3])
      [] c.m = "InnerJoin" -> QW_InnerJoin(w, c.s[1], c.s[2], c.s[3])
      [] c.m = "LeftJoinOn" -> QW_LeftJoinOn(w, c.s[1], c.s[2], c.s[3], c.fns)
      [] c.m = "RightJoinOn" -> QW_RightJoinOn(w, c.s[1], c.s[2], c.s[3], c.fns)
      [] c.m = "InnerJoinOn" -> QW_InnerJoinOn(w, c.s[1], c.s[2], c.s[3], c.fns)
      [] OTHER -> w

\* the body of a callback: its calls in order
RECURSIVE QW_Run(_, _)
QW_Run(w, f) ==
    IF f = <<>> THEN w ELSE QW_Run(QW_Call(w, Head(f)), Tail(f))

RECURSIVE QW_Apply(_, _)

\* the closure of addCondition
QW_condScope(sc, d) ==
    IF sc.isOr THEN DB_Or(d, sc.query, sc.args) ELSE DB_Where(d, sc.query, sc.args)

\* variant: the closure of Or(f) follows the captured connector
QW_orScope_captured(sc, d) ==
    LET subWrapper == QW_Run(NewQueryWrapper, sc.f)
        subDB == QW_Apply(subWrapper, NewSession)
    IN IF sc.isOr THEN DB_OrDB(d, subDB) ELSE DB_WhereDB(d, subDB)

\* variant: the closure of Or(f) attaches its group through db.Where
QW_orScope_where(sc, d) ==
    LET subWrapper == QW_Run(NewQueryWrapper, sc.f)
        subDB == QW_Apply(subWrapper, NewSession)
    IN DB_WhereDB(d, subDB)

\* the closure of Or(f): a fresh wrapper, f on it, applied to a new session
QW_orScope(sc, d) ==
    LET subWrapper == QW_Run(NewQueryWrapper, sc.f)
        subDB == QW_Apply(subWrapper, NewSession)
    IN IF sc.isOr THEN DB_OrDB(d, subDB) ELSE DB_OrDB(d, subDB)

\* the closure of And(f)
QW_andScope(sc, d) ==
    LET subWrapper == QW_Run(NewQueryWrapper, sc.f)
        subDB == QW_Apply(subWrapper, NewSession)
    IN IF sc.isOr THEN DB_OrDB(d, subDB) ELSE DB_WhereDB(d, subDB)

\* the closure of GroupBy: `for _, column := range columns { db = db.Group(column) }`
RECURSIVE QW_groupScope(_, _, _)
QW_groupScope(columns, i, d) ==
    IF i > Len(columns) THEN d
    ELSE QW_groupScope(columns, i + 1, DB_Group(d, columns[i].s))

\* the closure of LeftJoin
QW_leftJoinScope(sc, d) ==
    DB_Joins(d, <<"L", "E", "F", "T", " ", "J", "O", "I", "N", " ">> \o sc.query
                \o <<" ", "O", "N", " ">> \o sc.args[1].s \o <<" ", "=", " ">> \o sc.args[2].s,
             <<>>)

QW_scope(sc, d) ==
    CASE sc.kind = "cond" -> QW_condScope(sc, d)
      [] sc.kind = "or" -> QW_orScope(sc, d)
      [] sc.kind = "and" -> QW_andScope(sc, d)
      [] sc.kind = "OrderByDesc" -> DB_Order(d, sc.query \o <<" ", "D", "E", "S", "C">>)
      [] sc.kind = "OrderByAsc" -> DB_Order(d, sc.query \o <<" ", "A", "S", "C">>)
      [] sc.kind = "GroupBy" -> QW_groupScope(sc.args, 1, d)
      [] sc.kind = "Having" -> DB_Having(d, sc.query, sc.args)
      [] sc.kind = "LeftJoin" -> QW_leftJoinScope(sc, d)
      [] sc.kind = "RightJoin" -> Join_scope(KwRight, sc, d)
      [] sc.kind = "InnerJoin" -> Join_scope(KwInner, sc, d)
      [] sc.kind = "LeftJoinOn" -> JoinOn_scope(KwLeft, sc, d)
      [] sc.kind = "RightJoinOn" -> JoinOn_scope(KwRight, sc, d)
      [] sc.kind = "InnerJoinOn" -> JoinOn_scope(KwInner, sc, d)
      [] OTHER -> d

\* `for _, scope := range w.scopes { db = scope(db) }` from scope i on
RECURSIVE QW_applyFrom(_, _, _)
QW_applyFrom(scopes, i, d) ==
    IF i > Len(scopes) THEN d
    ELSE QW_applyFrom(scopes, i + 1, QW_scope(scopes[i], d))

\* variant: the recorded operations go first, the projection last
QW_Apply_selectLast(w, d) ==
    LET d1 == QW_applyFrom(w.scopes, 1, d)
    IN IF Len(w.selects) > 0 THEN DB_Select(d1, w.selects) ELSE d1

QW_Apply(w, d) ==
    LET d1 == IF Len(w.selects) > 0 THEN DB_Select(d, w.selects) ELSE d
    IN QW_applyFrom(w.scopes, 1, d1)

\* The callbacks Apply runs, in the order they start.  No method of
\* QueryWrapper calls the func it is handed: Or and And capture conditions[0]
\* in the closure they append, which runs it on `subWrapper :=
\* NewQueryWrapper[T]()` and then applies subWrapper.
RECURSIVE QW_Apply_invokes(_)

\* variant: the closure of Or(f) applies a sub-wrapper it ran nothing on
QW_scopeInvokes_andOnly(sc) ==
    CASE sc.kind = "and" ->
            <<Invocation(sc.f, NewQueryWrapper)>>
            \o QW_Apply_invokes(QW_Run(NewQueryWrapper, sc.f))
      [] sc.kind \in {"LeftJoinOn", "RightJoinOn", "InnerJoinOn"} -> JoinOn_scopeInvokes(sc)
      [] OTHER -> <<>>

QW_scopeInvokes(sc) ==
    CASE sc.kind \in {"or", "and"} ->
            <<Invocation(sc.f, NewQueryWrapper)>>
            \o QW_Apply_invokes(QW_Run(NewQueryWrapper, sc.f))
      [] sc.kind \in {"LeftJoinOn", "RightJoinOn", "InnerJoinOn"} -> JoinOn_scopeInvokes(sc)
      [] OTHER -> <<>>

RECURSIVE QW_invokesFrom(_, _)
QW_invokesFrom(scopes, i) ==
    IF i > Len(scopes) THEN <<>>
    ELSE QW_scopeInvokes(scopes[i]) \o QW_invokesFrom(scopes, i + 1)

QW_Apply_invokes(w) == QW_invokesFrom(w.scopes, 1)

\* variant: Apply hands the scopes and the columns over and leaves none
QW_Apply_w_drained(w) == [w EXCEPT !.scopes = <<>>, !.selects = <<>>]

\* the receiver after Apply: Apply assigns to no field of w
QW_Apply_w(w) == w

(***************************************************************************)
(* DeleteWrapper (DeleteWrapper.go).  scopes holds the deferred closures: each is  *)
(* recorded with what it captured and runs when Apply is called.           *)
(***************************************************************************)
NewDeleteWrapper == [scopes |-> <<>>, or |-> FALSE, useSoftDelete |-> TRUE]

\* variant: the pending connector survives the append
DW_addCondition_keepOr(w, query, args) ==
    [w EXCEPT !.scopes = Append(w.scopes, Scope("cond", w.or, query, args, <<>>))]

\* addCondition: the pending connector is read, reset, and captured by the closure
DW_addCondition(w, query, args) ==
    [w EXCEPT !.or = FALSE,
              !.scopes = Append(w.scopes, Scope("cond", w.or, query, args, <<>>))]

\* Or(): the next condition uses OR; Or(f): a nested group, recorded for Apply
DW_Or(w, conditions) ==
    IF Len(conditions) > 0
    THEN [w EXCEPT !.or = FALSE,
                   !.scopes = Append(w.scopes, Scope("or", w.or, <<>>, <<>>, conditions[1]))]
    ELSE [w EXCEPT !.or = TRUE]

\* variant: And(f) records its group as an AND group whatever is pending
DW_And_neverOr(w, conditions) ==
    LET w1 == IF Len(conditions) > 0
              THEN [w EXCEPT !.or = FALSE,
                             !.scopes = Append(w.scopes,
                                               Scope("and", FALSE, <<>>, <<>>, conditions[1]))]
              ELSE w
    IN [w1 EXCEPT !.or = FALSE]

\* And(f): a nested group, recorded for Apply; in both cases w.or = false at the end
DW_And(w, conditions) ==
    LET w1 == IF Len(conditions) > 0
              THEN [w EXCEPT !.or = FALSE,
                             !.scopes = Append(w.scopes,
                                               Scope("and", w.or, <<>>, <<>>, conditions[1]))]
              ELSE w
    IN [w1 EXCEPT !.or = FALSE]

DW_Eq(w, column, val, condition) ==
    IF Skipped(condition) THEN w
    ELSE DW_addCondition(w, column \o <<" ", "=", " ", "?">>, <<val>>)

DW_Ne(w, column, val, condition) ==
    IF Skipped(condition) THEN w
    ELSE DW_addCondition(w, column \o <<" ", "<", ">", " ", "?">>, <<val>>)

DW_Gt(w, column, val, condition) ==
    IF Skipped(condition) THEN w
    ELSE DW_addCondition(w, column \o <<" ", ">", " ", "?">>, <<val>>)

DW_Ge(w, column, val, condition) ==
    IF Skipped(condition) THEN w
    ELSE DW_addCondition(w, column \o <<" ", ">", "=", " ", "?">>, <<val>>)

DW_Lt(w, column, val, condition) ==
    IF Skipped(condition) THEN w
    ELSE DW_addCondition(w, column \o <<" ", "<", " ", "?">>, <<val>>)

DW_Le(w, column, val, condition) ==
    IF Skipped(condition) THEN w
    ELSE DW_addCondition(w, column \o <<" ", "<", "=", " ", "?">>, <<val>>)

DW_Like(w, column, val, condition) ==
    IF Skipped(condition) THEN w
    ELSE DW_addCondition(w, column \o <<" ", "L", "I", "K", "E", " ", "?">>, <<Scalar(<<"%">> \o val.s \o <<"%">>)>>)

DW_LikeLeft(w, column, val, condition) ==
    IF Skipped(condition) THEN w
    ELSE DW_addCondition(w, column \o <<" ", "L", "I", "K", "E", " ", "?">>, <<Scalar(<<"%">> \o val.s)>>)

DW_LikeRight(w, column, val, condition) ==
    IF Skipped(condition) THEN w
    ELSE DW_addCondition(w, column \o <<" ", "L", "I", "K", "E", " ", "?">>, <<Scalar(val.s \o <<"%">>)>>)

\* variant: In binds one parameter for each element of the collection
DW_In_spread(w, column, val, condition) ==
    IF Skipped(condition) THEN w
    ELSE DW_addCondition(w, column \o <<" ", "I", "N", " ", "(", "?", ")">>,
                         [i \in 1..Len(val.items) |-> Scalar(val.items[i])])

DW_In(w, column, val, condition) ==
    IF Skipped(condition) THEN w
    ELSE DW_addCondition(w, column \o <<" ", "I", "N", " ", "(", "?", ")">>, <<val>>)

DW_NotIn(w, column, val, condition) ==
    IF Skipped(condition) THEN w
    ELSE DW_addCondition(w, column \o <<" ", "N", "O", "T", " ", "I", "N", " ", "(", "?", ")">>, <<val>>)

DW_IsNull(w, column, condition) ==
    IF Skipped(condition) THEN w
    ELSE DW_addCondition(w, column \o <<" ", "I", "S", " ", "N", "U", "L", "L">>, <<>>)

DW_IsNotNull(w, column, condition) ==
    IF Skipped(condition) THEN w
    ELSE DW_addCondition(w, column \o <<" ", "I", "S", " ", "N", "O", "T", " ", "N", "U", "L", "L">>, <<>>)

DW_Between(w, column, val1, val2, condition) ==
    IF Skipped(condition) THEN w
    ELSE DW_addCondition(w, column \o
            <<" ", "B", "E", "T", "W", "E", "E", "N", " ", "?", " ", "A", "N", "D", " ", "?">>,
            <<val1, val2>>)

\* variant: the include flag is not read
DW_NotBetween_noFlag(w, column, val1, val2, condition) ==
    DW_addCondition(w, column \o
        <<" ", "N", "O", "T", " ", "B", "E", "T", "W", "E", "E", "N", " ", "?", " ", "A", "N", "D", " ", "?">>,
        <<val1, val2>>)

DW_NotBetween(w, column, val1, val2, condition) ==
    IF Skipped(condition) THEN w
    ELSE DW_addCondition(w, column \o
            <<" ", "N", "O", "T", " ", "B", "E", "T", "W", "E", "E", "N", " ", "?", " ", "A", "N", "D", " ", "?">>,
            <<val1, val2>>)

DW_LeftJoin(w, table, leftColumn, rightColumn) ==
    [w EXCEPT !.scopes = Append(w.scopes, Scope("LeftJoin", FALSE, table,
                                <<Scalar(leftColumn), Scalar(rightColumn)>>, <<>>))]

DW_RightJoin(w, table, leftColumn, rightColumn) ==
    [w EXCEPT !.scopes = Append(w.scopes, Scope("RightJoin", FALSE, table,
                                <<Scalar(leftColumn), Scalar(rightColumn)>>, <<>>))]

DW_InnerJoin(w, table, leftColumn, rightColumn) ==
    [w EXCEPT !.scopes = Append(w.scopes, Scope("InnerJoin", FALSE, table,
                                <<Scalar(leftColumn), Scalar(rightColumn)>>, <<>>))]

DW_LeftJoinOn(w, table, leftColumn, rightColumn, builders) ==
    [w EXCEPT !.scopes = Append(w.scopes, Scope("LeftJoinOn", FALSE, table,
                                <<Scalar(leftColumn), Scalar(rightColumn)>>, builders))]

DW_RightJoinOn(w, table, leftColumn, rightColumn, builders) ==
    [w EXCEPT !.scopes = Append(w.scopes, Scope("RightJoinOn", FALSE, table,
                                <<Scalar(leftColumn), Scalar(rightColumn)>>, builders))]

DW_InnerJoinOn(w, table, leftColumn, rightColumn, builders) ==
    [w EXCEPT !.scopes = Append(w.scopes, Scope("InnerJoinOn", FALSE, table,
                                <<Scalar(leftColumn), Scalar(rightColumn)>>, builders))]

\* variant: UseSoftDelete also drops the pending connector
DW_UseSoftDelete_resetsOr(w, enabled) == [w EXCEPT !.useSoftDelete = enabled, !.or = FALSE]

DW_UseSoftDelete(w, enabled) == [w EXCEPT !.useSoftDelete = enabled]

\* one call made by a callback on the DeleteWrapper it was handed
DW_Call(w, c) ==
    CASE c.m = "Eq" -> DW_Eq(w, c.s[1], c.v[1], c.condition)
      [] c.m = "Ne" -> DW_Ne(w, c.s[1], c.v[1], c.condition)
      [] c.m = "Gt" -> DW_Gt(w, c.s[1], c.v[1], c.condition)
      [] c.m = "Ge" -> DW_Ge(w, c.s[1], c.v[1], c.condition)
      [] c.m = "Lt" -> DW_Lt(w, c.s[1], c.v[1], c.condition)
      [] c.m = "Le" -> DW_Le(w, c.s[1], c.v[1], c.condition)
      [] c.m = "Like" -> DW_Like(w, c.s[1], c.v[1], c.condition)
      [] c.m = "LikeLeft" -> DW_LikeLeft(w, c.s[1], c.v[1], c.condition)
      [] c.m = "LikeRight" -> DW_LikeRight(w, c.s[1], c.v[1], c.condition)
      [] c.m = "In" -> DW_In(w, c.s[1], c.v[1], c.condition)
      [] c.m = "NotIn" -> DW_NotIn(w, c.s[1], c.v[1], c.condition)
      [] c.m = "IsNull" -> DW_IsNull(w, c.s[1], c.condition)
      [] c.m = "IsNotNull" -> DW_IsNotNull(w, c.s[1], c.condition)
      [] c.m = "Between" -> DW_Between(w, c.s[1], c.v[1], c.v[2], c.condition)
      [] c.m = "NotBetween" -> DW_NotBetween(w, c.s[1], c.v[1], c.v[2], c.condition)
      [] c.m = "Or" -> DW_Or(w, c.fns)
      [] c.m = "And" -> DW_And(w, c.fns)
      [] c.m = "LeftJoinOn" -> DW_LeftJoinOn(w, c.s[1], c.s[2], c.s[3], c.fns)
      [] c.m = "RightJoinOn" -> DW_RightJoinOn(w, c.s[1], c.s[2], c.s[3], c.fns)
      [] c.m = "InnerJoinOn" -> DW_InnerJoinOn(w, c.s[1], c.s[2], c.s[3], c.fns)
      [] c.m = "LeftJoin" -> DW_LeftJoin(w, c.s[1], c.s[2], c.s[3])
      [] c.m = "RightJoin" -> DW_RightJoin(w, c.s[1], c.s[2], c.s[3])
      [] c.m = "InnerJoin" -> DW_InnerJoin(w, c.s[1], c.s[2], c.s[3])
      [] c.m = "UseSoftDelete" -> DW_UseSoftDelete(w, c.s[1] = <<"true">>)
      [] OTHER -> w

\* the body of a callback: its calls in order
RECURSIVE DW_Run(_, _)
DW_Run(w, f) ==
    IF f = <<>> THEN w ELSE DW_Run(DW_Call(w, Head(f)), Tail(f))

RECURSIVE DW_Apply(_, _)

\* the closure of addCondition
DW_condScope(sc, d) ==
    IF sc.isOr THEN DB_Or(d, sc.query, sc.args) ELSE DB_Where(d, sc.query, sc.args)

\* the closure of Or(f): a fresh wrapper, f on it, applied to a new session
DW_orScope(sc, d) ==
    LET subWrapper == DW_Run(NewDeleteWrapper, sc.f)
        subDB == DW_Apply(subWrapper, NewSession)
    IN IF sc.isOr THEN DB_OrDB(d, subDB) ELSE DB_OrDB(d, subDB)

\* the closure of And(f)
\* variant: the closure of And(f) always uses db.Where
DW_andScope_where(sc, d) ==
    LET subWrapper == DW_Run(NewDeleteWrapper, sc.f)
        subDB == DW_Apply(subWrapper, NewSession)
    IN DB_WhereDB(d, subDB)

DW_andScope(sc, d) ==
    LET subWrapper == DW_Run(NewDeleteWrapper, sc.f)
        subDB == DW_Apply(subWrapper, NewSession)
    IN IF sc.isOr THEN DB_OrDB(d, subDB) ELSE DB_WhereDB(d, subDB)

DW_scope(sc, d) ==
    CASE sc.kind = "cond" -> DW_condScope(sc, d)
      [] sc.kind = "or" -> DW_orScope(sc, d)
      [] sc.kind = "and" -> DW_andScope(sc, d)
      [] sc.kind = "LeftJoin" -> Join_scope(KwLeft, sc, d)
      [] sc.kind = "RightJoin" -> Join_scope(KwRight, sc, d)
      [] sc.kind = "InnerJoin" -> Join_scope(KwInner, sc, d)
      [] sc.kind = "LeftJoinOn" -> JoinOn_scope(KwLeft, sc, d)
      [] sc.kind = "RightJoinOn" -> JoinOn_scope(KwRight, sc, d)
      [] sc.kind = "InnerJoinOn" -> JoinOn_scope(KwInner, sc, d)
      [] OTHER -> d

\* `for _, scope := range w.scopes { db = scope(db) }` from scope i on
RECURSIVE DW_applyFrom(_, _, _)
DW_applyFrom(scopes, i, d) ==
    IF i > Len(scopes) THEN d
    ELSE DW_applyFrom(scopes, i + 1, DW_scope(scopes[i], d))

DW_Apply(w, d) == DW_applyFrom(w.scopes, 1, d)

\* the callbacks Apply runs, in the order they start: as in QueryWrapper,
\* only the closures of Or(f), And(f) and the ...JoinOn methods run any
RECURSIVE DW_Apply_invokes(_)
DW_scopeInvokes(sc) ==
    CASE sc.kind \in {"or", "and"} ->
            <<Invocation(sc.f, NewDeleteWrapper)>>
            \o DW_Apply_invokes(DW_Run(NewDeleteWrapper, sc.f))
      [] sc.kind \in {"LeftJoinOn", "RightJoinOn", "InnerJoinOn"} -> JoinOn_scopeInvokes(sc)
      [] OTHER -> <<>>

RECURSIVE DW_invokesFrom(_, _)
DW_invokesFrom(scopes, i) ==
    IF i > Len(scopes) THEN <<>>
    ELSE DW_scopeInvokes(scopes[i]) \o DW_invokesFrom(scopes, i + 1)

DW_Apply_invokes(w) == DW_invokesFrom(w.scopes, 1)

(***************************************************************************)
(* InsertWrapper.                                                          *)
(***************************************************************************)
NewInsertWrapper == [values |-> <<>>]

\* variant: a column that is already set keeps its first value
IW_Set_keepFirst(w, column, val, condition) ==
    IF Skipped(condition) \/ column \in DOMAIN w.values THEN w
    ELSE [values |-> [c \in (DOMAIN w.values) \cup {column} |->
                        IF c = column THEN val ELSE w.values[c]]]

IW_Set(w, column, val, condition) ==
    IF Skipped(condition) THEN w
    ELSE [values |-> [c \in (DOMAIN w.values) \cup {column} |->
                        IF c = column THEN val ELSE w.values[c]]]

(***************************************************************************)
(* UpdateWrapper.  ServiceImpl.Update uses it (Apply, values) and the      *)
(* README documents it; its conditions follow the other builders and its   *)
(* Apply ends with the guard against an update with no condition.          *)
(***************************************************************************)
NewUpdateWrapper == [scopes |-> <<>>, or |-> FALSE, values |-> <<>>]

UW_Set(w, column, val, condition) ==
    IF Skipped(condition) THEN w
    ELSE [w EXCEPT !.values = Append(w.values, [column |-> column, val |-> val])]

UW_addCondition(w, query, args) ==
    [w EXCEPT !.or = FALSE,
              !.scopes = Append(w.scopes, Scope("cond", w.or, query, args, <<>>))]

UW_Eq(w, column, val, condition) ==
    IF Skipped(condition) THEN w
    ELSE UW_addCondition(w, column \o <<" ", "=", " ", "?">>, <<val>>)

ErrGlobalUpdate == <<"g", "l", "o", "b", "a", "l", " ", "u", "p", "d", "a", "t", "e">>

RECURSIVE UW_applyFrom(_, _, _)
UW_applyFrom(scopes, i, d) ==
    IF i > Len(scopes) THEN d
    ELSE LET sc == scopes[i]
             d1 == IF sc.isOr THEN DB_Or(d, sc.query, sc.args)
                              ELSE DB_Where(d, sc.query, sc.args)
         IN UW_applyFrom(scopes, i + 1, d1)

UW_Apply(w, d, cfg) ==
    LET d1 == UW_applyFrom(w.scopes, 1, d)
    IN IF Len(w.scopes) = 0 /\ ~cfg.AllowGlobalUpdate
       THEN DB_AddError(d1, ErrGlobalUpdate)
       ELSE d1

(***************************************************************************)
(* The configuration and the service facade (service.go).                  *)
(***************************************************************************)
\* the zero value of the package variable config
ZeroConfig ==
    [EnableSQLPrint |-> FALSE, AllowGlobalUpdate |-> FALSE, AllowGlobalDelete |-> FALSE]

\* what InitConfig can unmarshal into config
Configs ==
    [EnableSQLPrint : BOOLEAN, AllowGlobalUpdate : BOOLEAN, AllowGlobalDelete : BOOLEAN]

Service_getDB(cfg) ==
    IF cfg.EnableSQLPrint
    THEN Append(NewSession, DBCall("Debug", <<>>, <<>>, FALSE, <<>>))
    ELSE NewSession

\* ServiceImpl.Delete; isNil: the wrapper argument is nil
Service_Delete(cfg, isNil, wrapper) ==
    LET d0 == Service_getDB(cfg)
        d1 == IF ~isNil THEN DW_Apply(wrapper, d0) ELSE d0
    IN DB_Delete(d1)

\* ServiceImpl.Insert
Service_Insert(cfg, wrapper) ==
    LET d0 == Service_getDB(cfg)
        d1 == Append(d0, DBCall("Model", <<>>, <<>>, FALSE, <<>>))
    IN DB_Create(d1, wrapper.values)

\* ServiceImpl.Update
Service_Update(cfg, wrapper) ==
    LET d0 == Service_getDB(cfg)
        d1 == UW_Apply(wrapper, d0, cfg)
        d2 == Append(d1, DBCall("Model", <<>>, <<>>, FALSE, <<>>))
    IN DB_Updates(d2, wrapper.values)

(***************************************************************************)
(* Page (QueryWrapper.go) and ServiceImpl.Page (service.go).  The fields of *)
(* a Page are signed integers of IntBits bits whose arithmetic wraps       *)
(* around, as Go's does.                                                   *)
(***************************************************************************)
MaxInt == 2 ^ (IntBits - 1) - 1
MinInt == 0 - 2 ^ (IntBits - 1)
\* the value an integer result has in IntBits bits
Wrap(x) == ((x - MinInt) % 2 ^ IntBits) + MinInt

NewPage(current, size) ==
    [Current |-> current, Size |-> size, Total |-> 0, Records |-> <<>>]

\* variant: the offset of page n is n sizes and not n - 1
Page_Offset_fromOne(p) ==
    IF p.Current > 0 THEN Wrap(p.Current * p.Size) ELSE 0

Page_Offset(p) ==
    IF p.Current > 0 THEN Wrap((p.Current - 1) * p.Size) ELSE 0

Page_Limit(p) == p.Size

DB_Offset(d, offset) == Append(d, DBCall("Offset", <<>>, <<offset>>, FALSE, <<>>))
DB_Limit(d, limit) == Append(d, DBCall("Limit", <<>>, <<limit>>, FALSE, <<>>))
\* the terminal calls: each issues the statement the context holds
DB_Count(d) == Append(d, DBCall("Count", <<>>, <<>>, FALSE, <<>>))
DB_Find(d) == Append(d, DBCall("Find", <<>>, <<>>, FALSE, <<>>))

\* what the database answers to the count and to the find of one Page call
Answer(countErr, total, findErr, rows) ==
    [countErr |-> countErr, total |-> total, findErr |-> findErr, rows |-> rows]

\* variant: the offset and the limit are put on the context before the count
Service_Page_limitFirst(cfg, p, isNil, wrapper, in) ==
    LET d0 == Append(Service_getDB(cfg), DBCall("Model", <<>>, <<>>, FALSE, <<>>))
        d1 == IF ~isNil THEN QW_Apply(wrapper, d0) ELSE d0
        d2 == IF p.Size > 0 THEN DB_Limit(DB_Offset(d1, Page_Offset(p)), Page_Limit(p)) ELSE d1
        p1 == [p EXCEPT !.Total = in.total]
    IN IF in.countErr
       THEN [calls |-> <<DB_Count(d2)>>, page |-> p, ret |-> "nil", err |-> TRUE]
       ELSE IF in.total = 0
       THEN [calls |-> <<DB_Count(d2)>>, page |-> p1, ret |-> "page", err |-> FALSE]
       ELSE IF in.findErr
       THEN [calls |-> <<DB_Count(d2), DB_Find(d2)>>, page |-> p1, ret |-> "nil", err |-> TRUE]
       ELSE [calls |-> <<DB_Count(d2), DB_Find(d2)>>,
             page |-> [p1 EXCEPT !.Records = in.rows], ret |-> "page", err |-> FALSE]

\* ServiceImpl.Page; isNil: the wrapper argument is nil.  calls: the
\* statements issued, in order (the count runs on a session copy of db, so
\* it leaves db as it was); page: the Page after the call; ret: what is
\* returned beside the error.
Service_Page(cfg, p, isNil, wrapper, in) ==
    LET d0 == Append(Service_getDB(cfg), DBCall("Model", <<>>, <<>>, FALSE, <<>>))
        d1 == IF ~isNil THEN QW_Apply(wrapper, d0) ELSE d0
        p1 == [p EXCEPT !.Total = in.total]
        d2 == IF p1.Size > 0 THEN DB_Limit(DB_Offset(d1, Page_Offset(p1)), Page_Limit(p1))
              ELSE d1
    IN IF in.countErr
       THEN [calls |-> <<DB_Count(d1)>>, page |-> p, ret |-> "nil", err |-> TRUE]
       ELSE IF in.total = 0
       THEN [calls |-> <<DB_Count(d1)>>, page |-> p1, ret |-> "page", err |-> FALSE]
       ELSE IF in.findErr
       THEN [calls |-> <<DB_Count(d1), DB_Find(d2)>>, page |-> p1, ret |-> "nil", err |-> TRUE]
       ELSE [calls |-> <<DB_Count(d1), DB_Find(d2)>>,
             page |-> [p1 EXCEPT !.Records = in.rows], ret |-> "page", err |-> FALSE]

(***************************************************************************)
(* What the execution layer makes of the calls: the WHERE conditions in    *)
(* call order, a condition added with Or joined by OR and the others by    *)
(* AND, a nested context in parentheses, and nothing for a nested context  *)
(* that holds no condition.                                                *)
(***************************************************************************)
RECURSIVE DB_RenderFrom(_, _, _)
DB_RenderFrom(d, i, first) ==
    IF i > Len(d) THEN [clause |-> <<>>, args |-> <<>>]
    ELSE LET c == d[i]
             isCond == c.op \in {"Where", "Or"}
             inner == IF isCond /\ c.isDB THEN DB_RenderFrom(c.sub, 1, TRUE)
                      ELSE [clause |-> c.query, args |-> c.args]
             text == IF c.isDB THEN <<"(">> \o inner.clause \o <<")">> ELSE inner.clause
             adds == isCond /\ inner.clause # <<>>
             sep == IF first THEN <<>>
                    ELSE IF c.op = "Or" THEN <<" ", "O", "R", " ">>
                    ELSE <<" ", "A", "N", "D", " ">>
             rest == DB_RenderFrom(d, i + 1, first /\ ~adds)
         IN IF adds
            THEN [clause |-> sep \o text \o rest.clause, args |-> inner.args \o rest.args]
            ELSE rest

DB_Render(d) == DB_RenderFrom(d, 1, TRUE)

\* the WHERE conditions a context holds
DB_Conditions(d) == {i \in 1..Len(d) : d[i].op \in {"Where", "Or"}}

(***************************************************************************)
(* Inputs.                                                                 *)
(***************************************************************************)
CA == <<"a">>
CB == <<"b">>
CC == <<"c">>
V1 == Scalar(<<"1">>)
V2 == Scalar(<<"2">>)
VX == Scalar(<<"x">>)
VList == Collection(<< <<"1">>, <<"2">>, <<"3">> >>)
VNone == Collection(<<>>)
VOne == Collection(<< <<"1">> >>)
InLists == {VNone, VOne, VList}

NoFlag == <<>>
Conds == {<<>>, <<TRUE>>, <<FALSE>>}
EqInputs == {<<CA, V1>>, <<CB, V2>>}
EqConds == {<<>>, <<FALSE>>}

\* callbacks
FnEmpty == <<>>
FnAB == <<Call("Eq", <<CA>>, <<V1>>, NoFlag, <<>>), Call("Eq", <<CB>>, <<V2>>, NoFlag, <<>>)>>
FnGtOrNotNull ==
    <<Call("Gt", <<CB>>, <<V2>>, NoFlag, <<>>),
      Call("Or", <<>>, <<>>, NoFlag, <<>>),
      Call("IsNotNull", <<CC>>, <<>>, NoFlag, <<>>)>>
FnTrailingOr == <<Call("Eq", <<CA>>, <<V1>>, NoFlag, <<>>), Call("Or", <<>>, <<>>, NoFlag, <<>>)>>
FnSkipped == <<Call("Eq", <<CA>>, <<V1>>, <<FALSE>>, <<>>)>>
Fns == {FnEmpty, FnAB, FnGtOrNotNull, FnTrailingOr, FnSkipped}
FnArgs == {<<>>} \cup {<<f>> : f \in Fns}

\* callbacks handed to the ...JoinOn methods
FnOrIsNull ==
    <<Call("Or", <<>>, <<>>, NoFlag, <<>>), Call("IsNull", <<CC>>, <<>>, NoFlag, <<>>)>>
FnGt == <<Call("Gt", <<CB>>, <<V2>>, NoFlag, <<>>)>>
FnAndGroup == <<Call("And", <<>>, <<>>, NoFlag, <<FnGtOrNotNull>>)>>
\* callbacks with groups inside groups, and with a Raw fragment
FnRaw == <<Call("Raw", <<<<"r", " ", "=", " ", "1">>>>, <<>>, NoFlag, <<>>)>>
FnInner ==
    <<Call("Gt", <<CB>>, <<V2>>, NoFlag, <<>>),
      Call("Or", <<>>, <<>>, NoFlag, <<>>),
      Call("And", <<>>, <<>>, NoFlag, <<FnAB>>)>>
FnDeep ==
    <<Call("Eq", <<CA>>, <<V1>>, NoFlag, <<>>),
      Call("Or", <<>>, <<>>, NoFlag, <<>>),
      Call("And", <<>>, <<>>, NoFlag, <<FnInner>>),
      Call("Eq", <<CB>>, <<V2>>, NoFlag, <<>>)>>

\* the chains the nested-groups specification starts from
NestPrefixes ==
    {<<>>,
     <<Call("And", <<>>, <<>>, NoFlag, <<FnDeep>>)>>,
     <<Call("Eq", <<CA>>, <<V1>>, NoFlag, <<>>),
       Call("Or", <<>>, <<>>, NoFlag, <<>>),
       Call("And", <<>>, <<>>, NoFlag, <<FnDeep>>)>>,
     <<Call("Or", <<>>, <<>>, NoFlag, <<FnInner>>)>>,
     <<Call("IsNull", <<CC>>, <<>>, NoFlag, <<>>),
       Call("And", <<>>, <<>>, NoFlag, <<FnGtOrNotNull>>),
       Call("And", <<>>, <<>>, NoFlag, <<FnRaw>>)>>}

BuilderLists ==
    {<<>>, <<NilBuilder>>, <<Builder(FnEmpty)>>, <<Builder(FnSkipped)>>,
     <<Builder(FnOrIsNull)>>, <<NilBuilder, Builder(FnGt)>>,
     <<Builder(FnTrailingOr), Builder(FnGt)>>, <<Builder(FnAndGroup)>>}
TU == <<"u">>
\* table, left key, right key and builders of a ...JoinOn call
JoinOnInputs ==
    {<<TU, CA, CB, bs>> : bs \in BuilderLists} \cup {<<TU, <<>>, <<>>, <<>>>>}

\* the page numbers and sizes asked for: negative, zero, small, and large
\* enough for their product to leave the integer range
PageInts == {-1, 0, 1, 2, 3, (MaxInt + 1) \div 2, MaxInt}
\* the chains made on the QueryWrapper handed to ServiceImpl.Page
PagePrefixes ==
    {<<>>,
     <<Call("Eq", <<CA>>, <<V1>>, NoFlag, <<>>)>>,
     <<Call("Select", <<CB, CC>>, <<>>, NoFlag, <<>>),
       Call("And", <<>>, <<>>, NoFlag, <<FnAB>>)>>}
\* the rows a find returns
Rows == {<<"r1">>, <<"r1", "r2">>}
\* the answers of the database: the count fails, or reports no row, or
\* reports some and the find fails or returns rows
Answers ==
    {Answer(TRUE, 0, FALSE, <<>>), Answer(FALSE, 0, FALSE, <<>>)}
    \cup {Answer(FALSE, n, TRUE, <<>>) : n \in 1..MaxTotal}
    \cup {Answer(FALSE, n, FALSE, rows) : n \in 1..MaxTotal, rows \in Rows}

HavingQuery == <<"c", " ", ">", " ", "?">>
SelectInputs == {<<>>, <<CA>>, <<CB, CC>>}
GroupByInputs == {<<>>, <<CA>>, <<CA, CB>>}

RawInputs == {<<" ", " ">>, <<"r", " ", "=", " ", "1">>}

\* the chains the all-operators specification starts from
Prefixes ==
    {<<>>,
     <<Call("Or", <<>>, <<>>, NoFlag, <<>>)>>,
     <<Call("Eq", <<CA>>, <<V1>>, NoFlag, <<>>)>>,
     <<Call("Eq", <<CA>>, <<V1>>, NoFlag, <<>>), Call("Or", <<>>, <<>>, NoFlag, <<>>)>>}

(***************************************************************************)
(* The state machine.  kind: the builder this run drives.  hist: the calls *)
(* made on it so far.  prev: the builders as they were before the last     *)
(* call.  budget: the calls still allowed.  renders: the Builds or        *)
(* Applies still allowed.  built, db, svc: the result of                   *)
(* JoinOnWrapper.Build, of Apply and of the service call.                  *)
(* invoked: the runs of callbacks so far, in order.  page: the Page handed  *)
(* to ServiceImpl.Page.                                                    *)
(***************************************************************************)
Builders == [jw |-> jw, qw |-> qw, dw |-> dw, iw |-> iw, uw |-> uw]

NewBuilders ==
    [jw |-> NewJoinOnWrapper, qw |-> NewQueryWrapper, dw |-> NewDeleteWrapper,
     iw |-> NewInsertWrapper, uw |-> NewUpdateWrapper]

\* n: the renderings made so far; before: the result of the one before the last
NotBuilt ==
    [done |-> FALSE, clause |-> <<>>, args |-> <<>>, n |-> 0,
     before |-> [clause |-> <<>>, args |-> <<>>]]
NotApplied == [done |-> FALSE, calls |-> <<>>, n |-> 0, before |-> <<>>]
NoService == [op |-> "none", calls |-> <<>>]

\* no goroutine but the caller's works on the builder
NoThreads == [th |-> <<>>, raced |-> FALSE]

\* no page is being filled
NoPage == [Current |-> 0, Size |-> 0, Total |-> 0, Records |-> <<>>]

\* the callbacks that run before call c on the builder of kind k returns
CallInvokes(k, c) == IF k = "join" THEN JW_callInvokes(c) ELSE <<>>

\* the builder is still being chained: nothing was rendered from it yet
Chaining == ~built.done /\ ~db.done /\ svc.op = "none"

\* one more call c on the builder of kind k
Step(k, c) ==
    /\ kind = k
    /\ Chaining
    /\ budget > 0
    /\ budget' = budget - 1
    /\ hist' = Append(hist, c)
    /\ prev' = Builders
    /\ invoked' = invoked \o CallInvokes(k, c)
    /\ UNCHANGED <<threads, page, kind, renders, config, built, db, svc>>

\* ---- JoinOnWrapper calls
J_Eq ==
    \E p \in EqInputs, cond \in EqConds :
        /\ Step("join", Call("Eq", <<p[1]>>, <<p[2]>>, cond, <<>>))
        /\ jw' = JW_Eq(jw, p[1], p[2], cond)
        /\ UNCHANGED <<qw, dw, iw, uw>>

J_Ne ==
    \E cond \in Conds :
        /\ Step("join", Call("Ne", <<CB>>, <<V2>>, cond, <<>>))
        /\ jw' = JW_Ne(jw, CB, V2, cond)
        /\ UNCHANGED <<qw, dw, iw, uw>>

J_Gt ==
    \E cond \in Conds :
        /\ Step("join", Call("Gt", <<CB>>, <<V2>>, cond, <<>>))
        /\ jw' = JW_Gt(jw, CB, V2, cond)
        /\ UNCHANGED <<qw, dw, iw, uw>>

J_Ge ==
    \E cond \in Conds :
        /\ Step("join", Call("Ge", <<CB>>, <<V2>>, cond, <<>>))
        /\ jw' = JW_Ge(jw, CB, V2, cond)
        /\ UNCHANGED <<qw, dw, iw, uw>>

J_Lt ==
    \E cond \in Conds :
        /\ Step("join", Call("Lt", <<CB>>, <<V2>>, cond, <<>>))
        /\ jw' = JW_Lt(jw, CB, V2, cond)
        /\ UNCHANGED <<qw, dw, iw, uw>>

J_Le ==
    \E cond \in Conds :
        /\ Step("join", Call("Le", <<CB>>, <<V2>>, cond, <<>>))
        /\ jw' = JW_Le(jw, CB, V2, cond)
        /\ UNCHANGED <<qw, dw, iw, uw>>

J_Like ==
    \E cond \in Conds :
        /\ Step("join", Call("Like", <<CA>>, <<VX>>, cond, <<>>))
        /\ jw' = JW_Like(jw, CA, VX, cond)
        /\ UNCHANGED <<qw, dw, iw, uw>>

J_LikeLeft ==
    \E cond \in Conds :
        /\ Step("join", Call("LikeLeft", <<CA>>, <<VX>>, cond, <<>>))
        /\ jw' = JW_LikeLeft(jw, CA, VX, cond)
        /\ UNCHANGED <<qw, dw, iw, uw>>

J_LikeRight ==
    \E cond \in Conds :
        /\ Step("join", Call("LikeRight", <<CA>>, <<VX>>, cond, <<>>))
        /\ jw' = JW_LikeRight(jw, CA, VX, cond)
        /\ UNCHANGED <<qw, dw, iw, uw>>

J_In ==
    \E val \in InLists, cond \in Conds :
        /\ Step("join", Call("In", <<CA>>, <<val>>, cond, <<>>))
        /\ jw' = JW_In(jw, CA, val, cond)
        /\ UNCHANGED <<qw, dw, iw, uw>>

J_NotIn ==
    \E val \in InLists, cond \in Conds :
        /\ Step("join", Call("NotIn", <<CA>>, <<val>>, cond, <<>>))
        /\ jw' = JW_NotIn(jw, CA, val, cond)
        /\ UNCHANGED <<qw, dw, iw, uw>>

J_IsNull ==
    \E cond \in Conds :
        /\ Step("join", Call("IsNull", <<CC>>, <<>>, cond, <<>>))
        /\ jw' = JW_IsNull(jw, CC, cond)
        /\ UNCHANGED <<qw, dw, iw, uw>>

J_IsNotNull ==
    \E cond \in Conds :
        /\ Step("join", Call("IsNotNull", <<CC>>, <<>>, cond, <<>>))
        /\ jw' = JW_IsNotNull(jw, CC, cond)
        /\ UNCHANGED <<qw, dw, iw, uw>>

J_Between ==
    \E cond \in Conds :
        /\ Step("join", Call("Between", <<CA>>, <<V1, V2>>, cond, <<>>))
        /\ jw' = JW_Between(jw, CA, V1, V2, cond)
        /\ UNCHANGED <<qw, dw, iw, uw>>

J_NotBetween ==
    \E cond \in Conds :
        /\ Step("join", Call("NotBetween", <<CA>>, <<V1, V2>>, cond, <<>>))
        /\ jw' = JW_NotBetween(jw, CA, V1, V2, cond)
        /\ UNCHANGED <<qw, dw, iw, uw>>

J_EqColumn ==
    \E cond \in Conds :
        /\ Step("join", Call("EqColumn", <<CA, CB>>, <<>>, cond, <<>>))
        /\ jw' = JW_EqColumn(jw, CA, CB, cond)
        /\ UNCHANGED <<qw, dw, iw, uw>>

J_Raw ==
    \E q \in RawInputs :
        /\ Step("join", Call("Raw", <<q>>, <<>>, NoFlag, <<>>))
        /\ jw' = JW_Raw(jw, q, <<>>)
        /\ UNCHANGED <<qw, dw, iw, uw>>

J_Or ==
    \E fns \in FnArgs :
        /\ Step("join", Call("Or", <<>>, <<>>, NoFlag, fns))
        /\ jw' = JW_Or(jw, fns)
        /\ UNCHANGED <<qw, dw, iw, uw>>

J_And ==
    \E fns \in FnArgs :
        /\ Step("join", Call("And", <<>>, <<>>, NoFlag, fns))
        /\ jw' = JW_And(jw, fns)
        /\ UNCHANGED <<qw, dw, iw, uw>>

\* ---- QueryWrapper calls
Q_Eq ==
    \E p \in EqInputs, cond \in EqConds :
        /\ Step("query", Call("Eq", <<p[1]>>, <<p[2]>>, cond, <<>>))
        /\ qw' = QW_Eq(qw, p[1], p[2], cond)
        /\ UNCHANGED <<jw, dw, iw, uw>>

Q_Ne ==
    \E cond \in Conds :
        /\ Step("query", Call("Ne", <<CB>>, <<V2>>, cond, <<>>))
        /\ qw' = QW_Ne(qw, CB, V2, cond)
        /\ UNCHANGED <<jw, dw, iw, uw>>

Q_Gt ==
    \E cond \in Conds :
        /\ Step("query", Call("Gt", <<CB>>, <<V2>>, cond, <<>>))
        /\ qw' = QW_Gt(qw, CB, V2, cond)
        /\ UNCHANGED <<jw, dw, iw, uw>>

Q_Ge ==
    \E cond \in Conds :
        /\ Step("query", Call("Ge", <<CB>>, <<V2>>, cond, <<>>))
        /\ qw' = QW_Ge(qw, CB, V2, cond)
        /\ UNCHANGED <<jw, dw, iw, uw>>

Q_Lt ==
    \E cond \in Conds :
        /\ Step("query", Call("Lt", <<CB>>, <<V2>>, cond, <<>>))
        /\ qw' = QW_Lt(qw, CB, V2, cond)
        /\ UNCHANGED <<jw, dw, iw, uw>>

Q_Le ==
    \E cond \in Conds :
        /\ Step("query", Call("Le", <<CB>>, <<V2>>, cond, <<>>))
        /\ qw' = QW_Le(qw, CB, V2, cond)
        /\ UNCHANGED <<jw, dw, iw, uw>>

Q_Like ==
    \E cond \in Conds :
        /\ Step("query", Call("Like", <<CA>>, <<VX>>, cond, <<>>))
        /\ qw' = QW_Like(qw, CA, VX, cond)
        /\ UNCHANGED <<jw, dw, iw, uw>>

Q_LikeLeft ==
    \E cond \in Conds :
        /\ Step("query", Call("LikeLeft", <<CA>>, <<VX>>, cond, <<>>))
        /\ qw' = QW_LikeLeft(qw, CA, VX, cond)
        /\ UNCHANGED <<jw, dw, iw, uw>>

Q_LikeRight ==
    \E cond \in Conds :
        /\ Step("query", Call("LikeRight", <<CA>>, <<VX>>, cond, <<>>))
        /\ qw' = QW_LikeRight(qw, CA, VX, cond)
        /\ UNCHANGED <<jw, dw, iw, uw>>

Q_In ==
    \E val \in InLists, cond \in Conds :
        /\ Step("query", Call("In", <<CA>>, <<val>>, cond, <<>>))
        /\ qw' = QW_In(qw, CA, val, cond)
        /\ UNCHANGED <<jw, dw, iw, uw>>

Q_NotIn ==
    \E val \in InLists, cond \in Conds :
        /\ Step("query", Call("NotIn", <<CA>>, <<val>>, cond, <<>>))
        /\ qw' = QW_NotIn(qw, CA, val, cond)
        /\ UNCHANGED <<jw, dw, iw, uw>>

Q_IsNull ==
    \E cond \in Conds :
        /\ Step("query", Call("IsNull", <<CC>>, <<>>, cond, <<>>))
        /\ qw' = QW_IsNull(qw, CC, cond)
        /\ UNCHANGED <<jw, dw, iw, uw>>

Q_IsNotNull ==
    \E cond \in Conds :
        /\ Step("query", Call("IsNotNull", <<CC>>, <<>>, cond, <<>>))
        /\ qw' = QW_IsNotNull(qw, CC, cond)
        /\ UNCHANGED <<jw, dw, iw, uw>>

Q_Between ==
    \E cond \in Conds :
        /\ Step("query", Call("Between", <<CA>>, <<V1, V2>>, cond, <<>>))
        /\ qw' = QW_Between(qw, CA, V1, V2, cond)
        /\ UNCHANGED <<jw, dw, iw, uw>>

Q_NotBetween ==
    \E cond \in Conds :
        /\ Step("query", Call("NotBetween", <<CA>>, <<V1, V2>>, cond, <<>>))
        /\ qw' = QW_NotBetween(qw, CA, V1, V2, cond)
        /\ UNCHANGED <<jw, dw, iw, uw>>

Q_Or ==
    \E fns \in FnArgs :
        /\ Step("query", Call("Or", <<>>, <<>>, NoFlag, fns))
        /\ qw' = QW_Or(qw, fns)
        /\ UNCHANGED <<jw, dw, iw, uw>>

Q_And ==
    \E fns \in FnArgs :
        /\ Step("query", Call("And", <<>>, <<>>, NoFlag, fns))
        /\ qw' = QW_And(qw, fns)
        /\ UNCHANGED <<jw, dw, iw, uw>>

\* ---- DeleteWrapper calls
D_Eq ==
    \E p \in EqInputs, cond \in EqConds :
        /\ Step("delete", Call("Eq", <<p[1]>>, <<p[2]>>, cond, <<>>))
        /\ dw' = DW_Eq(dw, p[1], p[2], cond)
        /\ UNCHANGED <<jw, qw, iw, uw>>

D_Ne ==
    \E cond \in Conds :
        /\ Step("delete", Call("Ne", <<CB>>, <<V2>>, cond, <<>>))
        /\ dw' = DW_Ne(dw, CB, V2, cond)
        /\ UNCHANGED <<jw, qw, iw, uw>>

D_Gt ==
    \E cond \in Conds :
        /\ Step("delete", Call("Gt", <<CB>>, <<V2>>, cond, <<>>))
        /\ dw' = DW_Gt(dw, CB, V2, cond)
        /\ UNCHANGED <<jw, qw, iw, uw>>

D_Ge ==
    \E cond \in Conds :
        /\ Step("delete", Call("Ge", <<CB>>, <<V2>>, cond, <<>>))
        /\ dw' = DW_Ge(dw, CB, V2, cond)
        /\ UNCHANGED <<jw, qw, iw, uw>>

D_Lt ==
    \E cond \in Conds :
        /\ Step("delete", Call("Lt", <<CB>>, <<V2>>, cond, <<>>))
        /\ dw' = DW_Lt(dw, CB, V2, cond)
        /\ UNCHANGED <<jw, qw, iw, uw>>

D_Le ==
    \E cond \in Conds :
        /\ Step("delete", Call("Le", <<CB>>, <<V2>>, cond, <<>>))
        /\ dw' = DW_Le(dw, CB, V2, cond)
        /\ UNCHANGED <<jw, qw, iw, uw>>

D_Like ==
    \E cond \in Conds :
        /\ Step("delete", Call("Like", <<CA>>, <<VX>>, cond, <<>>))
        /\ dw' = DW_Like(dw, CA, VX, cond)
        /\ UNCHANGED <<jw, qw, iw, uw>>

D_LikeLeft ==
    \E cond \in Conds :
        /\ Step("delete", Call("LikeLeft", <<CA>>, <<VX>>, cond, <<>>))
        /\ dw' = DW_LikeLeft(dw, CA, VX, cond)
        /\ UNCHANGED <<jw, qw, iw, uw>>

D_LikeRight ==
    \E cond \in Conds :
        /\ Step("delete", Call("LikeRight", <<CA>>, <<VX>>, cond, <<>>))
        /\ dw' = DW_LikeRight(dw, CA, VX, cond)
        /\ UNCHANGED <<jw, qw, iw, uw>>

D_In ==
    \E val \in InLists, cond \in Conds :
        /\ Step("delete", Call("In", <<CA>>, <<val>>, cond, <<>>))
        /\ dw' = DW_In(dw, CA, val, cond)
        /\ UNCHANGED <<jw, qw, iw, uw>>

D_NotIn ==
    \E val \in InLists, cond \in Conds :
        /\ Step("delete", Call("NotIn", <<CA>>, <<val>>, cond, <<>>))
        /\ dw' = DW_NotIn(dw, CA, val, cond)
        /\ UNCHANGED <<jw, qw, iw, uw>>

D_IsNull ==
    \E cond \in Conds :
        /\ Step("delete", Call("IsNull", <<CC>>, <<>>, cond, <<>>))
        /\ dw' = DW_IsNull(dw, CC, cond)
        /\ UNCHANGED <<jw, qw, iw, uw>>

D_IsNotNull ==
    \E cond \in Conds :
        /\ Step("delete", Call("IsNotNull", <<CC>>, <<>>, cond, <<>>))
        /\ dw' = DW_IsNotNull(dw, CC, cond)
        /\ UNCHANGED <<jw, qw, iw, uw>>

D_Between ==
    \E cond \in Conds :
        /\ Step("delete", Call("Between", <<CA>>, <<V1, V2>>, cond, <<>>))
        /\ dw' = DW_Between(dw, CA, V1, V2, cond)
        /\ UNCHANGED <<jw, qw, iw, uw>>

D_NotBetween ==
    \E cond \in Conds :
        /\ Step("delete", Call("NotBetween", <<CA>>, <<V1, V2>>, cond, <<>>))
        /\ dw' = DW_NotBetween(dw, CA, V1, V2, cond)
        /\ UNCHANGED <<jw, qw, iw, uw>>

D_Or ==
    \E fns \in FnArgs :
        /\ Step("delete", Call("Or", <<>>, <<>>, NoFlag, fns))
        /\ dw' = DW_Or(dw, fns)
        /\ UNCHANGED <<jw, qw, iw, uw>>

D_And ==
    \E fns \in FnArgs :
        /\ Step("delete", Call("And", <<>>, <<>>, NoFlag, fns))
        /\ dw' = DW_And(dw, fns)
        /\ UNCHANGED <<jw, qw, iw, uw>>

\* ---- InsertWrapper calls
I_Set ==
    \E c \in {CA, CB}, val \in {V1, V2}, cond \in Conds :
        /\ Step("insert", Call("Set", <<c>>, <<val>>, cond, <<>>))
        /\ iw' = IW_Set(iw, c, val, cond)
        /\ UNCHANGED <<jw, qw, dw, uw>>

\* ---- UpdateWrapper calls
U_Set ==
    \E cond \in EqConds :
        /\ Step("update", Call("Set", <<CA>>, <<V1>>, cond, <<>>))
        /\ uw' = UW_Set(uw, CA, V1, cond)
        /\ UNCHANGED <<jw, qw, dw, iw>>

U_Eq ==
    \E p \in EqInputs, cond \in EqConds :
        /\ Step("update", Call("Eq", <<p[1]>>, <<p[2]>>, cond, <<>>))
        /\ uw' = UW_Eq(uw, p[1], p[2], cond)
        /\ UNCHANGED <<jw, qw, dw, iw>>

\* ---- rendering
J_Build ==
    /\ kind = "join"
    /\ renders > 0
    /\ renders' = renders - 1
    /\ built' = [done |-> TRUE, clause |-> JW_Build(jw).clause, args |-> JW_Build(jw).args,
                 n |-> built.n + 1,
                 before |-> [clause |-> built.clause, args |-> built.args]]
    /\ jw' = JW_Build_w(jw)
    /\ UNCHANGED <<threads, invoked, page, kind, hist, prev, budget, qw, dw, iw, uw, config, db, svc>>

Q_Apply ==
    /\ kind = "query"
    /\ renders > 0
    /\ renders' = renders - 1
    /\ db' = [done |-> TRUE, calls |-> QW_Apply(qw, NewSession), n |-> db.n + 1,
              before |-> db.calls]
    /\ qw' = QW_Apply_w(qw)
    /\ invoked' = invoked \o QW_Apply_invokes(qw)
    /\ UNCHANGED <<threads, page, kind, hist, prev, budget, jw, dw, iw, uw, config, built, svc>>

D_Apply ==
    /\ kind = "delete"
    /\ svc.op = "none"
    /\ renders > 0
    /\ renders' = renders - 1
    /\ db' = [done |-> TRUE, calls |-> DW_Apply(dw, NewSession), n |-> db.n + 1,
              before |-> db.calls]
    /\ invoked' = invoked \o DW_Apply_invokes(dw)
    /\ UNCHANGED <<threads, page, kind, hist, prev, budget, jw, qw, dw, iw, uw, config, built, svc>>

\* ---- joins with an ON builder
Q_LeftJoinOn ==
    \E j \in JoinOnInputs :
        /\ Step("query", Call("LeftJoinOn", <<j[1], j[2], j[3]>>, <<>>, NoFlag, j[4]))
        /\ qw' = QW_LeftJoinOn(qw, j[1], j[2], j[3], j[4])
        /\ UNCHANGED <<jw, dw, iw, uw>>

Q_RightJoinOn ==
    \E j \in JoinOnInputs :
        /\ Step("query", Call("RightJoinOn", <<j[1], j[2], j[3]>>, <<>>, NoFlag, j[4]))
        /\ qw' = QW_RightJoinOn(qw, j[1], j[2], j[3], j[4])
        /\ UNCHANGED <<jw, dw, iw, uw>>

Q_InnerJoinOn ==
    \E j \in JoinOnInputs :
        /\ Step("query", Call("InnerJoinOn", <<j[1], j[2], j[3]>>, <<>>, NoFlag, j[4]))
        /\ qw' = QW_InnerJoinOn(qw, j[1], j[2], j[3], j[4])
        /\ UNCHANGED <<jw, dw, iw, uw>>

D_LeftJoinOn ==
    \E j \in JoinOnInputs :
        /\ Step("delete", Call("LeftJoinOn", <<j[1], j[2], j[3]>>, <<>>, NoFlag, j[4]))
        /\ dw' = DW_LeftJoinOn(dw, j[1], j[2], j[3], j[4])
        /\ UNCHANGED <<jw, qw, iw, uw>>

D_RightJoinOn ==
    \E j \in JoinOnInputs :
        /\ Step("delete", Call("RightJoinOn", <<j[1], j[2], j[3]>>, <<>>, NoFlag, j[4]))
        /\ dw' = DW_RightJoinOn(dw, j[1], j[2], j[3], j[4])
        /\ UNCHANGED <<jw, qw, iw, uw>>

D_InnerJoinOn ==
    \E j \in JoinOnInputs :
        /\ Step("delete", Call("InnerJoinOn", <<j[1], j[2], j[3]>>, <<>>, NoFlag, j[4]))
        /\ dw' = DW_InnerJoinOn(dw, j[1], j[2], j[3], j[4])
        /\ UNCHANGED <<jw, qw, iw, uw>>

\* ---- projection, joins, grouping and ordering of a QueryWrapper
Q_Select ==
    \E cols \in SelectInputs :
        /\ Step("query", Call("Select", cols, <<>>, NoFlag, <<>>))
        /\ qw' = QW_Select(qw, cols)
        /\ UNCHANGED <<jw, dw, iw, uw>>

Q_LeftJoin ==
    /\ Step("query", Call("LeftJoin", <<TU, CA, CB>>, <<>>, NoFlag, <<>>))
    /\ qw' = QW_LeftJoin(qw, TU, CA, CB)
    /\ UNCHANGED <<jw, dw, iw, uw>>

Q_GroupBy ==
    \E cols \in GroupByInputs :
        /\ Step("query", Call("GroupBy", cols, <<>>, NoFlag, <<>>))
        /\ qw' = QW_GroupBy(qw, cols)
        /\ UNCHANGED <<jw, dw, iw, uw>>

Q_Having ==
    /\ Step("query", Call("Having", <<HavingQuery>>, <<V1>>, NoFlag, <<>>))
    /\ qw' = QW_Having(qw, HavingQuery, <<V1>>)
    /\ UNCHANGED <<jw, dw, iw, uw>>

Q_OrderByDesc ==
    \E c \in {CA, CB} :
        /\ Step("query", Call("OrderByDesc", <<c>>, <<>>, NoFlag, <<>>))
        /\ qw' = QW_OrderByDesc(qw, c)
        /\ UNCHANGED <<jw, dw, iw, uw>>

Q_OrderByAsc ==
    \E c \in {CA, CB} :
        /\ Step("query", Call("OrderByAsc", <<c>>, <<>>, NoFlag, <<>>))
        /\ qw' = QW_OrderByAsc(qw, c)
        /\ UNCHANGED <<jw, dw, iw, uw>>

D_UseSoftDelete ==
    \E enabled \in BOOLEAN :
        /\ Step("delete", Call("UseSoftDelete", <<IF enabled THEN <<"true">> ELSE <<"false">>>>,
                               <<>>, NoFlag, <<>>))
        /\ dw' = DW_UseSoftDelete(dw, enabled)
        /\ UNCHANGED <<jw, qw, iw, uw>>

\* ---- configuration and service
InitConfig ==
    \E cfg \in Configs :
        /\ hist = <<>>
        /\ Chaining
        /\ config' = cfg
        /\ UNCHANGED <<threads, invoked, page, kind, hist, prev, budget, renders, jw, qw, dw, iw, uw, built, db, svc>>

Svc_Delete ==
    \E isNil \in BOOLEAN :
        /\ kind = "delete"
        /\ Chaining
        /\ svc' = [op |-> "Delete", calls |-> Service_Delete(config, isNil, dw)]
        /\ invoked' = invoked \o (IF isNil THEN <<>> ELSE DW_Apply_invokes(dw))
        /\ UNCHANGED <<threads, page, kind, hist, prev, budget, renders, jw, qw, dw, iw, uw, config, built, db>>

Svc_Insert ==
    /\ kind = "insert"
    /\ Chaining
    /\ svc' = [op |-> "Insert", calls |-> Service_Insert(config, iw)]
    /\ UNCHANGED <<threads, invoked, page, kind, hist, prev, budget, renders, jw, qw, dw, iw, uw, config, built, db>>

Svc_Update ==
    /\ kind = "update"
    /\ Chaining
    /\ svc' = [op |-> "Update", calls |-> Service_Update(config, uw)]
    /\ UNCHANGED <<threads, invoked, page, kind, hist, prev, budget, renders, jw, qw, dw, iw, uw, config, built, db>>

\* one call of ServiceImpl.Page with the page and the QueryWrapper of this
\* run; before and in keep the page as it was handed over and the answers
Svc_Page ==
    \E isNil \in BOOLEAN, in \in Answers :
        LET r == Service_Page(config, page, isNil, qw, in)
        IN /\ kind = "query"
           /\ ~db.done
           /\ renders > 0
           /\ renders' = renders - 1
           /\ svc' = [op |-> "Page", calls |-> r.calls, ret |-> r.ret, err |-> r.err,
                      isNil |-> isNil, before |-> page, in |-> in]
           /\ page' = r.page
           /\ invoked' = invoked \o (IF isNil THEN <<>> ELSE QW_Apply_invokes(qw))
           /\ UNCHANGED <<threads, kind, hist, prev, budget, jw, qw, dw, iw, uw, config,
                          built, db>>

(***************************************************************************)
(* Specifications.                                                         *)
(***************************************************************************)
InitWith(kinds, n, r) ==
    /\ kind \in kinds
    /\ hist = <<>>
    /\ prev = NewBuilders
    /\ budget = n
    /\ renders = r
    /\ jw = NewJoinOnWrapper
    /\ qw = NewQueryWrapper
    /\ dw = NewDeleteWrapper
    /\ iw = NewInsertWrapper
    /\ uw = NewUpdateWrapper
    /\ config = ZeroConfig
    /\ built = NotBuilt
    /\ db = NotApplied
    /\ svc = NoService
    /\ threads = NoThreads
    /\ invoked = <<>>
    /\ page = NoPage

\* chained calls on one builder, then its rendering
Init == InitWith({"join", "query", "delete"}, MaxCalls, 1)

Next ==
    \/ J_Eq \/ J_EqColumn \/ J_Raw \/ J_Or \/ J_And \/ J_Build
    \/ Q_Eq \/ Q_Or \/ Q_And \/ Q_Apply
    \/ D_Eq \/ D_Or \/ D_And \/ D_Apply

Spec == Init /\ [][Next]_vars

\* the same chains and renderings, for the properties of the node list, of
\* nested groups and of Build
InitChain == InitWith({"join", "query", "delete"}, MaxChainCalls, 1)

SpecChain == InitChain /\ [][Next]_vars

\* every operator method of every builder, called after a short chain
InitOps ==
    \E p \in Prefixes :
        /\ kind \in {"join", "query", "delete", "insert"}
        /\ hist = p
        /\ prev = [NewBuilders EXCEPT !.jw = JW_Run(NewJoinOnWrapper, Front(p)),
                                      !.qw = QW_Run(NewQueryWrapper, Front(p)),
                                      !.dw = DW_Run(NewDeleteWrapper, Front(p))]
        /\ budget = MaxOpCalls
        /\ renders = 1
        /\ jw = JW_Run(NewJoinOnWrapper, p)
        /\ qw = QW_Run(NewQueryWrapper, p)
        /\ dw = DW_Run(NewDeleteWrapper, p)
        /\ iw = NewInsertWrapper
        /\ uw = NewUpdateWrapper
        /\ config = ZeroConfig
        /\ built = NotBuilt
        /\ db = NotApplied
        /\ svc = NoService
        /\ threads = NoThreads
        /\ invoked = <<>>
        /\ page = NoPage

NextOps ==
    \/ J_Eq \/ J_EqColumn \/ J_Ne \/ J_Gt \/ J_Ge \/ J_Lt \/ J_Le
    \/ J_Like \/ J_LikeLeft \/ J_LikeRight \/ J_In \/ J_NotIn
    \/ J_IsNull \/ J_IsNotNull \/ J_Between \/ J_NotBetween
    \/ Q_Eq \/ Q_Ne \/ Q_Gt \/ Q_Ge \/ Q_Lt \/ Q_Le
    \/ Q_Like \/ Q_LikeLeft \/ Q_LikeRight \/ Q_In \/ Q_NotIn
    \/ Q_IsNull \/ Q_IsNotNull \/ Q_Between \/ Q_NotBetween
    \/ D_Eq \/ D_Ne \/ D_Gt \/ D_Ge \/ D_Lt \/ D_Le
    \/ D_Like \/ D_LikeLeft \/ D_LikeRight \/ D_In \/ D_NotIn
    \/ D_IsNull \/ D_IsNotNull \/ D_Between \/ D_NotBetween
    \/ I_Set

SpecOps == InitOps /\ [][NextOps]_vars

\* the service facade on a delete or an update builder
InitService == InitWith({"delete", "update", "insert"}, MaxSvcCalls, 1)

NextService ==
    \/ InitConfig
    \/ D_Eq \/ D_Or \/ D_And \/ D_UseSoftDelete \/ Svc_Delete
    \/ U_Set \/ U_Eq \/ Svc_Update
    \/ I_Set \/ Svc_Insert

SpecService == InitService /\ [][NextService]_vars

\* the ON builder by itself and inside the ...JoinOn methods
InitJoins == InitWith({"join", "query", "delete"}, MaxJoinCalls, MaxRenders)

NextJoins ==
    \/ J_EqColumn \/ J_Gt \/ J_IsNull \/ J_Or \/ J_And \/ J_Build
    \/ Q_Eq \/ Q_LeftJoinOn \/ Q_RightJoinOn \/ Q_InnerJoinOn \/ Q_Apply
    \/ D_Eq \/ D_LeftJoinOn \/ D_RightJoinOn \/ D_InnerJoinOn \/ D_Apply
    \/ Q_Or \/ Q_And \/ D_Or \/ D_And

SpecJoins == InitJoins /\ [][NextJoins]_vars

\* the clauses of a QueryWrapper and their application
InitQuery == InitWith({"query"}, MaxQueryCalls, MaxRenders)

NextQuery ==
    \/ Q_Select \/ Q_LeftJoin \/ Q_Eq \/ Q_Or \/ Q_GroupBy \/ Q_Having
    \/ Q_OrderByDesc \/ Q_OrderByAsc \/ Q_Apply

SpecQuery == InitQuery /\ [][NextQuery]_vars

\* pages of a query: a Page, a chained QueryWrapper and calls of ServiceImpl.Page
InitPage ==
    \E current \in PageInts, size \in PageInts, p \in PagePrefixes :
        /\ kind = "query"
        /\ hist = p
        /\ prev = [NewBuilders EXCEPT !.qw = QW_Run(NewQueryWrapper, Front(p))]
        /\ budget = 0
        /\ renders = MaxPageCalls
        /\ jw = NewJoinOnWrapper
        /\ qw = QW_Run(NewQueryWrapper, p)
        /\ dw = NewDeleteWrapper
        /\ iw = NewInsertWrapper
        /\ uw = NewUpdateWrapper
        /\ config = ZeroConfig
        /\ built = NotBuilt
        /\ db = NotApplied
        /\ svc = NoService
        /\ threads = NoThreads
        /\ invoked = <<>>
        /\ page = NewPage(current, size)

NextPage == Svc_Page

SpecPage == InitPage /\ [][NextPage]_vars

\* a JoinOnWrapper that already holds groups inside groups
InitNest ==
    \E p \in NestPrefixes :
        /\ kind = "join"
        /\ hist = p
        /\ prev = [NewBuilders EXCEPT !.jw = JW_Run(NewJoinOnWrapper, Front(p))]
        /\ budget = MaxNestCalls
        /\ renders = 1
        /\ jw = JW_Run(NewJoinOnWrapper, p)
        /\ qw = NewQueryWrapper
        /\ dw = NewDeleteWrapper
        /\ iw = NewInsertWrapper
        /\ uw = NewUpdateWrapper
        /\ config = ZeroConfig
        /\ built = NotBuilt
        /\ db = NotApplied
        /\ svc = NoService
        /\ threads = NoThreads
        /\ invoked = JW_runInvokes(p)
        /\ page = NoPage

NextNest ==
    \/ J_Eq \/ J_EqColumn \/ J_Gt \/ J_Between \/ J_IsNull \/ J_In \/ J_Like
    \/ J_Or \/ J_And \/ J_Build

SpecNest == InitNest /\ [][NextNest]_vars

(***************************************************************************)
(* Reading the history.                                                    *)
(***************************************************************************)
\* the builder of kind k after the calls f, from a new builder
After(k, f) ==
    CASE k = "join" -> JW_Run(NewJoinOnWrapper, f)
      [] k = "query" -> QW_Run(NewQueryWrapper, f)
      [] k = "delete" -> DW_Run(NewDeleteWrapper, f)

\* the builder of this run after its first i calls
AfterCall(i) == After(kind, SubSeq(hist, 1, i))

\* the recorded nodes of a builder: conditions or scopes
Nodes(w) == IF kind = "join" THEN w.conditions ELSE w.scopes

\* the pending connector of the builder of this run
Pending == CASE kind = "join" -> jw.or [] kind = "query" -> qw.or [] kind = "delete" -> dw.or
PrevPending ==
    CASE kind = "join" -> prev.jw.or [] kind = "query" -> prev.qw.or
      [] kind = "delete" -> prev.dw.or

\* the builder of this run, now and before the last call
Cur == CASE kind = "join" -> jw [] kind = "query" -> qw [] kind = "delete" -> dw
Prev == CASE kind = "join" -> prev.jw [] kind = "query" -> prev.qw [] kind = "delete" -> prev.dw

ClauseMethods ==
    {"Eq", "EqColumn", "Ne", "Gt", "Ge", "Lt", "Le", "Like", "LikeLeft", "LikeRight",
     "In", "NotIn", "IsNull", "IsNotNull", "Between", "NotBetween", "Raw"}

IsPlainOr(c) == c.m = "Or" /\ c.fns = <<>>
IsPlainAnd(c) == c.m = "And" /\ c.fns = <<>>
IsNested(c) == c.m \in {"Or", "And"} /\ c.fns # <<>>
IsSkip(c) == Skipped(c.condition)
IsClause(c) == c.m \in ClauseMethods /\ ~IsSkip(c)

\* call i changed the builder
Changed(i) == AfterCall(i) # AfterCall(i - 1)
\* call i appended a node
Appended(i) == Len(Nodes(AfterCall(i))) = Len(Nodes(AfterCall(i - 1))) + 1
\* the node call i appended
NodeOf(i) == Nodes(AfterCall(i))[Len(Nodes(AfterCall(i)))]
\* the last call before call i that changed the builder (0: none)
LastChange(i) ==
    LET S == {j \in 1..(i - 1) : Changed(j)}
    IN IF S = {} THEN 0 ELSE CHOOSE j \in S : \A l \in S : l <= j

\* what was rendered from the builder of this run
Rendered ==
    CASE kind = "join" -> built.done
      [] kind \in {"query", "delete"} -> db.done
Rendering ==
    CASE kind = "join" -> [clause |-> built.clause, args |-> built.args]
      [] kind \in {"query", "delete"} -> DB_Render(db.calls)

CallEq(c, v) == Call("Eq", <<c>>, <<v>>, NoFlag, <<>>)
CallOr == Call("Or", <<>>, <<>>, NoFlag, <<>>)
CallAnd(f) == Call("And", <<>>, <<>>, NoFlag, <<f>>)
CallOrFn(f) == Call("Or", <<>>, <<>>, NoFlag, <<f>>)

(***************************************************************************)
(* Claims.                                                                 *)
(***************************************************************************)

\* C1: on JoinOnWrapper, QueryWrapper and DeleteWrapper a clause is recorded
\* with OR exactly when the last call before it that changed the builder is
\* a plain Or(), and with AND otherwise; Apply hands an OR clause to db.Or
\* and an AND clause to db.Where; and Eq("a",1).Or().Eq("b",2) renders
\* "a = ? OR b = ?" with the parameters [1, 2].
C1_OrJoinsNextClause ==
    /\ \A i \in 1..Len(hist) :
          (IsClause(hist[i]) /\ Appended(i)) =>
              (NodeOf(i).isOr <=>
                  (LastChange(i) > 0 /\ IsPlainOr(hist[LastChange(i)])))
    /\ (kind \in {"query", "delete"} /\ db.done) =>
          \A n \in 1..Len(Nodes(Cur)) :
              Nodes(Cur)[n].kind = "cond" =>
                  /\ db.calls[n].op = (IF Nodes(Cur)[n].isOr THEN "Or" ELSE "Where")
                  /\ db.calls[n].query = Nodes(Cur)[n].query
                  /\ db.calls[n].args = Nodes(Cur)[n].args
    /\ (Rendered /\ hist = <<CallEq(CA, V1), CallOr, CallEq(CB, V2)>>) =>
          /\ Rendering.clause =
                <<"a", " ", "=", " ", "?", " ", "O", "R", " ", "b", " ", "=", " ", "?">>
          /\ Rendering.args = <<V1, V2>>

C1_Witness ==
    /\ kind = "query"
    /\ db.done
    /\ hist = <<CallEq(CA, V1), CallOr, CallEq(CB, V2)>>
    /\ Len(db.calls) = 2
    /\ db.calls[2].op = "Or"

\* what the group of each callback reads as, and its parameters
GroupOf(f) ==
    CASE f = FnAB -> [clause |-> <<"a", " ", "=", " ", "?", " ", "A", "N", "D", " ", "b", " ", "=", " ", "?">>, args |-> <<V1, V2>>]
      [] f = FnGtOrNotNull -> [clause |-> <<"b", " ", ">", " ", "?", " ", "O", "R", " ", "c", " ", "I", "S", " ", "N", "O", "T", " ", "N", "U", "L", "L">>, args |-> <<V2>>]
      [] f = FnTrailingOr -> [clause |-> <<"a", " ", "=", " ", "?">>, args |-> <<V1>>]
      [] OTHER -> [clause |-> <<>>, args |-> <<>>]

EmptyGroup(f) == GroupOf(f).clause = <<>>
InParens(s) == <<"(">> \o s \o <<")">>
LastCall == hist[Len(hist)]
LastNode(w) == Nodes(w)[Len(Nodes(w))]

\* C2: And(fn) with a non-empty group and no Or() pending appends one node
\* joined with AND that holds the group in parentheses with the group's own
\* connectors; Apply hands it to db.Where; the outer parameters come before
\* the group's; Eq("a",1).And(Gt("b",2).Or().IsNotNull("c")) renders
\* "a = ? AND (b > ? OR c IS NOT NULL)" with the parameters [1, 2].
C2_AndGroup ==
    /\ \A i \in 1..Len(hist) :
          (hist[i].m = "And" /\ IsNested(hist[i]) /\ ~AfterCall(i - 1).or
                /\ ~EmptyGroup(hist[i].fns[1])) =>
              /\ Appended(i)
              /\ ~NodeOf(i).isOr
              /\ kind = "join" =>
                    /\ NodeOf(i).query = InParens(GroupOf(hist[i].fns[1]).clause)
                    /\ NodeOf(i).args = GroupOf(hist[i].fns[1]).args
              /\ kind \in {"query", "delete"} =>
                    /\ NodeOf(i).kind = "and"
                    /\ NodeOf(i).f = hist[i].fns[1]
    /\ (kind \in {"query", "delete"} /\ db.done) =>
          \A n \in 1..Len(Nodes(Cur)) :
              (Nodes(Cur)[n].kind = "and" /\ ~Nodes(Cur)[n].isOr) =>
                  /\ db.calls[n].op = "Where"
                  /\ db.calls[n].isDB
                  /\ DB_Render(db.calls[n].sub) = GroupOf(Nodes(Cur)[n].f)
    /\ \A f \in Fns :
          (Rendered /\ ~EmptyGroup(f) /\ hist = <<CallEq(CA, V1), CallAnd(f)>>) =>
              /\ Rendering.clause =
                    <<"a", " ", "=", " ", "?">> \o <<" ", "A", "N", "D", " ">> \o InParens(GroupOf(f).clause)
              /\ Rendering.args = <<V1>> \o GroupOf(f).args
    /\ (Rendered /\ hist = <<CallEq(CA, V1), CallAnd(FnGtOrNotNull)>>) =>
          /\ Rendering.clause =
                <<"a", " ", "=", " ", "?", " ", "A", "N", "D", " ", "(", "b", " ", ">", " ", "?", " ", "O", "R", " ", "c", " ", "I", "S", " ", "N", "O", "T", " ", "N", "U", "L", "L", ")">>
          /\ Rendering.args = <<V1, V2>>

C2_Witness ==
    /\ kind = "join"
    /\ built.done
    /\ hist = <<CallEq(CA, V1), CallAnd(FnGtOrNotNull)>>
    /\ Len(jw.conditions) = 2
    /\ built.args = <<V1, V2>>

\* C3: a call of an operator method (InsertWrapper.Set included) whose
\* include flag is false leaves every builder exactly as it was: the
\* recorded nodes, their parameters, the pending connector and the insert
\* values.
C3_SkippedCallIsNoOp ==
    (Len(hist) > 0 /\ IsSkip(LastCall)) => Builders = prev

C3_Witness ==
    /\ Len(hist) = 3
    /\ IsSkip(LastCall)
    /\ LastCall.m = "NotBetween"
    /\ kind = "delete"
    /\ dw.or
    /\ Len(dw.scopes) = 1

\* C4: an append records the pending connector and resets it to AND in the
\* same call, so two nodes appended one after the other never both take the
\* same Or(): there are never more OR nodes than plain Or() calls, and
\* Or().Eq(a).Eq(b) records a with OR and b with AND.
C4_PendingConsumedOnce ==
    /\ (Len(hist) > 0 /\ Len(Nodes(Cur)) = Len(Nodes(Prev)) + 1) =>
          /\ ~Pending
          /\ LastNode(Cur).isOr = PrevPending
    /\ \A i \in 2..Len(hist) :
          (Appended(i - 1) /\ Appended(i)) => ~NodeOf(i).isOr
    /\ Cardinality({n \in 1..Len(Nodes(Cur)) : Nodes(Cur)[n].isOr})
          <= Cardinality({i \in 1..Len(hist) : IsPlainOr(hist[i])})
    /\ hist = <<CallOr, CallEq(CA, V1), CallEq(CB, V2)>> =>
          /\ Len(Nodes(Cur)) = 2
          /\ Nodes(Cur)[1].isOr
          /\ ~Nodes(Cur)[2].isOr

C4_Witness ==
    /\ kind = "delete"
    /\ hist = <<CallOr, CallEq(CA, V1), CallEq(CB, V2)>>
    /\ dw.scopes[1].isOr
    /\ ~dw.or

C6_OrGroupUsesPending ==
    /\ kind = "join" =>
          \A i \in 1..Len(hist) :
              (hist[i].m = "Or" /\ IsNested(hist[i]) /\ Appended(i)) =>
                  (NodeOf(i).isOr <=> AfterCall(i - 1).or)
    /\ (kind \in {"query", "delete"} /\ db.done) =>
          \A n \in 1..Len(Nodes(Cur)) :
              (Nodes(Cur)[n].kind = "or" /\ DB_Render(db.calls[n].sub).clause # <<>>) =>
                  db.calls[n].op = (IF Nodes(Cur)[n].isOr THEN "Or" ELSE "Where")

\* C6 amended: on JoinOnWrapper Or(fn) attaches its group with the pending
\* connector captured at the call (OR after a plain Or(), AND otherwise); on
\* QueryWrapper and DeleteWrapper the scope captures the pending connector
\* but Apply attaches the group with db.Or whatever was captured.
C6_OrGroupAmended ==
    /\ \A i \in 1..Len(hist) :
          (hist[i].m = "Or" /\ IsNested(hist[i]) /\ Appended(i)) =>
              (NodeOf(i).isOr <=> AfterCall(i - 1).or)
    /\ (kind \in {"query", "delete"} /\ db.done) =>
          \A n \in 1..Len(Nodes(Cur)) :
              Nodes(Cur)[n].kind = "or" =>
                  /\ db.calls[n].op = "Or"
                  /\ db.calls[n].isDB
                  /\ DB_Render(db.calls[n].sub) = GroupOf(Nodes(Cur)[n].f)

C6_Witness ==
    /\ kind = "delete"
    /\ db.done
    /\ hist = <<CallEq(CB, V2), CallOrFn(FnAB)>>
    /\ ~dw.scopes[2].isOr
    /\ db.calls[2].op = "Or"

\* C7: on QueryWrapper Or(func(sw){ sw.Eq("a",1).Eq("b",2) }) reaches the
\* execution context through db.Or with the group "a = ? AND b = ?" and the
\* parameters [1, 2], after a plain Or() and without one: after Eq("b",2)
\* both chains render "b = ? OR (a = ? AND b = ?)".
C7_QueryOrGroupIsOr ==
    kind = "query" =>
        /\ db.done =>
              \A n \in 1..Len(qw.scopes) :
                  (qw.scopes[n].kind = "or" /\ qw.scopes[n].f = FnAB) =>
                      /\ db.calls[n].op = "Or"
                      /\ DB_Render(db.calls[n].sub).clause = <<"a", " ", "=", " ", "?", " ", "A", "N", "D", " ", "b", " ", "=", " ", "?">>
                      /\ DB_Render(db.calls[n].sub).args = <<V1, V2>>
        /\ (db.done /\ hist \in {<<CallEq(CB, V2), CallOrFn(FnAB)>>,
                                 <<CallEq(CB, V2), CallOr, CallOrFn(FnAB)>>}) =>
              /\ Rendering.clause = <<"b", " ", "=", " ", "?", " ", "O", "R", " ", "(", "a", " ", "=", " ", "?", " ", "A", "N", "D", " ", "b", " ", "=", " ", "?", ")">>
              /\ Rendering.args = <<V2, V1, V2>>

C7_Witness ==
    /\ kind = "query"
    /\ db.done
    /\ hist = <<CallEq(CB, V2), CallOrFn(FnAB)>>
    /\ ~qw.scopes[2].isOr

\* C8: Or() and And() without a callback append nothing; Or() leaves the
\* pending connector OR and And() leaves it AND; Or().And().Eq(x) records x
\* with AND and Or().Or().Eq(x) records x with OR.
C8_ConnectorOnlyCalls ==
    /\ (Len(hist) > 0 /\ IsPlainOr(LastCall)) =>
          /\ Nodes(Cur) = Nodes(Prev)
          /\ Pending
    /\ (Len(hist) > 0 /\ IsPlainAnd(LastCall)) =>
          /\ Nodes(Cur) = Nodes(Prev)
          /\ ~Pending
    /\ (Len(hist) > 0 /\ (IsPlainOr(LastCall) \/ IsPlainAnd(LastCall))) =>
          /\ kind = "query" => qw.selects = prev.qw.selects
          /\ kind = "delete" => dw.useSoftDelete = prev.dw.useSoftDelete
    /\ \A p \in EqInputs :
          /\ hist = <<CallOr, Call("And", <<>>, <<>>, NoFlag, <<>>), CallEq(p[1], p[2])>> =>
                (Len(Nodes(Cur)) = 1 /\ ~Nodes(Cur)[1].isOr)
          /\ hist = <<CallOr, CallOr, CallEq(p[1], p[2])>> =>
                (Len(Nodes(Cur)) = 1 /\ Nodes(Cur)[1].isOr)

C8_Witness ==
    /\ kind = "join"
    /\ hist = <<CallOr, CallOr, CallEq(CA, V1)>>
    /\ jw.conditions[1].isOr

\* C9: after a call of Or(fn) or And(fn) returns, whatever the callback
\* did, the pending connector of the builder is AND.
C9_PendingAndAfterGroup ==
    (Len(hist) > 0 /\ IsNested(LastCall)) => ~Pending

\* the delete or update reached the terminal call with an error recorded
Rejected(calls) == \E i \in 1..Len(calls) : calls[i].op = "AddError"
\* the terminal call op ran: it was issued on a context with no error
Executed(calls, op) == Len(calls) > 0 /\ calls[Len(calls)].op = op /\ ~Rejected(calls)

\* C10: a delete (update) with no condition is rejected with the
\* global-mutation error and its terminal call does not run while
\* AllowGlobalDelete (AllowGlobalUpdate) is false, and runs with no WHERE
\* condition when the flag is true; each flag decides its own statement.
C10_GlobalMutationGuard ==
    /\ (svc.op = "Delete" /\ DB_Conditions(svc.calls) = {}) =>
          IF config.AllowGlobalDelete
          THEN Executed(svc.calls, "Delete")
          ELSE Rejected(svc.calls) /\ ~Executed(svc.calls, "Delete")
    /\ (svc.op = "Update" /\ DB_Conditions(svc.calls) = {}) =>
          IF config.AllowGlobalUpdate
          THEN Executed(svc.calls, "Updates")
          ELSE Rejected(svc.calls) /\ ~Executed(svc.calls, "Updates")


CallEqColumn(l, r) == Call("EqColumn", <<l, r>>, <<>>, NoFlag, <<>>)
CallGt(c, v) == Call("Gt", <<c>>, <<v>>, NoFlag, <<>>)

\* C11: JoinOnWrapper.Build leaves the conditions and the pending connector
\* as the calls made them; a second Build on the same instance returns the
\* clause and the parameters of the first; EqColumn(a, b).Gt(b, 2) builds
\* "a = b AND b > ?" with [2] both times.
C11_BuildIsPureRead ==
    kind = "join" =>
        /\ built.done => jw = After("join", hist)
        /\ built.n >= 2 =>
              /\ built.clause = built.before.clause
              /\ built.args = built.before.args
        /\ (built.done /\ hist = <<CallEqColumn(CA, CB), CallGt(CB, V2)>>) =>
              /\ built.clause = <<"a", " ", "=", " ", "b", " ", "A", "N", "D", " ", "b", " ", ">", " ", "?">>
              /\ built.args = <<V2>>

C11_Witness ==
    /\ kind = "join"
    /\ built.n = 2
    /\ hist = <<CallEqColumn(CA, CB), CallGt(CB, V2)>>
    /\ built.before.clause = <<"a", " ", "=", " ", "b", " ", "A", "N", "D", " ", "b", " ", ">", " ", "?">>
    /\ built.before.args = <<V2>>
    /\ Len(jw.conditions) = 2

JoinOnKinds == {"LeftJoinOn", "RightJoinOn", "InnerJoinOn"}
Keyword(k) ==
    CASE k = "LeftJoinOn" -> KwLeft [] k = "RightJoinOn" -> KwRight [] k = "InnerJoinOn" -> KwInner
\* the text every join of the scope sc starts with
JoinHead(sc) ==
    Keyword(sc.kind) \o <<" ", "J", "O", "I", "N", " ">> \o sc.query \o <<" ", "O", "N", " ">>
        \o sc.args[1].s \o <<" ", "=", " ">> \o sc.args[2].s

\* C12: every LeftJoinOn, RightJoinOn and InnerJoinOn recorded on a
\* QueryWrapper or a DeleteWrapper reaches the execution context as one
\* db.Joins call whose text starts with "<KEYWORD> JOIN table ON left = right",
\* with no builder, a nil builder, builders that add nothing and builders
\* that add clauses.
C12_JoinOnSeeded ==
    (kind \in {"query", "delete"} /\ db.done) =>
        /\ Len(db.calls) = Len(Nodes(Cur))
        /\ \A n \in 1..Len(Nodes(Cur)) :
              Nodes(Cur)[n].kind \in JoinOnKinds =>
                  /\ db.calls[n].op = "Joins"
                  /\ HasPrefix(db.calls[n].query, JoinHead(Nodes(Cur)[n]))

C12_Witness ==
    /\ kind = "delete"
    /\ db.done
    /\ Len(hist) = 2
    /\ hist[1].m = "InnerJoinOn"
    /\ hist[1].fns = <<NilBuilder, Builder(FnGt)>>
    /\ hist[2].m = "LeftJoinOn"
    /\ hist[2].fns = <<Builder(FnSkipped)>>
    /\ db.calls[2].op = "Joins"

\* C13: Build on a JoinOnWrapper with no conditions returns the empty
\* clause and no parameters; calls of Or(), And() and calls with a false
\* include flag leave the wrapper with no conditions.
C13_EmptyBuild ==
    kind = "join" =>
        /\ (built.done /\ jw.conditions = <<>>) =>
              (built.clause = <<>> /\ built.args = <<>>)
        /\ (\A i \in 1..Len(hist) :
                IsPlainOr(hist[i]) \/ IsPlainAnd(hist[i]) \/ IsSkip(hist[i])) =>
              /\ jw.conditions = <<>>
              /\ JW_Build(jw).clause = <<>>
              /\ JW_Build(jw).args = <<>>

C13_Witness ==
    /\ kind = "join"
    /\ built.done
    /\ hist = <<CallOr, Call("Eq", <<CA>>, <<V1>>, <<FALSE>>, <<>>)>>
    /\ jw.or
    /\ built.clause = <<>>

\* C19: a ...JoinOn whose callback calls Or() and then IsNull(c) joins that
\* clause to the key equality with OR:
\* RightJoinOn(u, a, b, on.Or().IsNull(c)) produces
\* "RIGHT JOIN u ON a = b OR c IS NULL" with no parameters.
C19_JoinOnCallbackOr ==
    (kind \in {"query", "delete"} /\ db.done) =>
        /\ \A n \in 1..Len(Nodes(Cur)) :
              (Nodes(Cur)[n].kind \in JoinOnKinds /\ Nodes(Cur)[n].f = <<Builder(FnOrIsNull)>>) =>
                  /\ db.calls[n].query = JoinHead(Nodes(Cur)[n]) \o <<" ", "O", "R", " ", "c", " ", "I", "S", " ", "N", "U", "L", "L">>
                  /\ db.calls[n].args = <<>>
        /\ hist = <<Call("RightJoinOn", <<TU, CA, CB>>, <<>>, NoFlag, <<Builder(FnOrIsNull)>>)>> =>
              db.calls[1].query = <<"R", "I", "G", "H", "T", " ", "J", "O", "I", "N", " ", "u", " ", "O", "N", " ", "a", " ", "=", " ", "b", " ", "O", "R", " ", "c", " ", "I", "S", " ", "N", "U", "L", "L">>

C19_Witness ==
    /\ kind = "query"
    /\ db.done
    /\ hist = <<Call("RightJoinOn", <<TU, CA, CB>>, <<>>, NoFlag, <<Builder(FnOrIsNull)>>)>>
    /\ db.calls[1].op = "Joins"


\* C14: QueryWrapper.Apply leaves the scopes, the selected columns and the
\* pending connector as the calls made them, and a second Apply of the same
\* builder to a new context issues the operations of the first, so the
\* statement is the same.
C14_ApplyConsumesNothing ==
    kind = "query" =>
        /\ db.done => qw = After("query", hist)
        /\ db.n >= 2 =>
              /\ db.calls = db.before
              /\ DB_Render(db.calls) = DB_Render(db.before)

C14_Witness ==
    /\ kind = "query"
    /\ db.n = 2
    /\ hist = <<Call("Select", <<CA>>, <<>>, NoFlag, <<>>), CallOr>>
    /\ qw.or
    /\ qw.selects = <<CA>>
    /\ db.before = db.calls
    /\ Len(db.calls) = 1

\* the place of an operation in the order projection, joins, where,
\* group-by, having, order-by
Rank(op) ==
    CASE op = "Select" -> 1
      [] op = "Joins" -> 2
      [] op \in {"Where", "Or"} -> 3
      [] op = "Group" -> 4
      [] op = "Having" -> 5
      [] op = "Order" -> 6

\* C15 as claimed: the operations an Apply issues are in the order
\* projection, joins, where-conditions, group-by, having, order-by, whatever
\* order the builder methods were called in.
C15_FixedApplyOrder ==
    (kind = "query" /\ db.done) =>
        \A i, j \in 1..Len(db.calls) :
            i < j => Rank(db.calls[i].op) <= Rank(db.calls[j].op)

\* the operations one builder call leaves for Apply, by rank
RanksOfCall(c) ==
    CASE c.m = "LeftJoin" -> <<2>>
      [] c.m = "Eq" /\ ~IsSkip(c) -> <<3>>
      [] IsNested(c) -> <<3>>
      [] c.m = "GroupBy" -> [i \in 1..Len(c.s) |-> 4]
      [] c.m = "Having" -> <<5>>
      [] c.m \in {"OrderByDesc", "OrderByAsc"} -> <<6>>
      [] OTHER -> <<>>

RECURSIVE RanksOfCalls(_)
RanksOfCalls(h) == IF h = <<>> THEN <<>> ELSE RanksOfCall(Head(h)) \o RanksOfCalls(Tail(h))

RECURSIVE SelectedBy(_)
SelectedBy(h) ==
    IF h = <<>> THEN <<>>
    ELSE (IF Head(h).m = "Select" THEN Head(h).s ELSE <<>>) \o SelectedBy(Tail(h))

\* C15 amended: Apply issues the projection first, one db.Select with all
\* the selected columns when any was selected, and then the joins,
\* where-conditions, group-by, having and order-by operations in the order
\* the builder methods were called.
C15_ApplyInCallOrder ==
    (kind = "query" /\ db.done) =>
        /\ [i \in 1..Len(db.calls) |-> Rank(db.calls[i].op)] =
              (IF SelectedBy(hist) # <<>> THEN <<1>> ELSE <<>>) \o RanksOfCalls(hist)
        /\ SelectedBy(hist) # <<>> => db.calls[1].args = <<Collection(SelectedBy(hist))>>

C15_Witness ==
    /\ kind = "query"
    /\ db.done
    /\ hist = <<Call("OrderByDesc", <<CA>>, <<>>, NoFlag, <<>>),
                Call("Select", <<CA>>, <<>>, NoFlag, <<>>)>>
    /\ Len(db.calls) = 2
    /\ db.calls[1].op = "Select"
    /\ db.calls[2].op = "Order"

\* the last call is an included call of one of the methods ms
LastIncluded(ms) == Len(hist) > 0 /\ LastCall.m \in ms /\ ~IsSkip(LastCall)
\* the last call appended exactly one node
AppendedOne == Len(Nodes(Cur)) = Len(Nodes(Prev)) + 1
LikeText == <<" ", "L", "I", "K", "E", " ", "?">>
\* the pattern each of the LIKE methods binds for the value v
LikePattern(m, v) ==
    CASE m = "Like" -> <<"%">> \o v \o <<"%">>
      [] m = "LikeLeft" -> <<"%">> \o v
      [] m = "LikeRight" -> v \o <<"%">>

\* C16: an included Like, LikeLeft or LikeRight appends one node whose
\* fragment is the column followed by " LIKE ?" and whose only parameter is
\* the pattern: %x% for Like, %x for LikeLeft, x% for LikeRight; the value is
\* not part of the fragment.
C16_LikeBindsPattern ==
    LastIncluded({"Like", "LikeLeft", "LikeRight"}) =>
        /\ AppendedOne
        /\ LastNode(Cur).query = LastCall.s[1] \o LikeText
        /\ LastNode(Cur).args = <<Scalar(LikePattern(LastCall.m, LastCall.v[1].s))>>
        /\ ~Contains(LastNode(Cur).query, LastCall.v[1].s)
        /\ CountChar(LastNode(Cur).query, "?") = 1

C16_Witness ==
    /\ kind = "query"
    /\ LastIncluded({"LikeLeft"})
    /\ LastNode(qw).args = <<Scalar(<<"%", "x">>)>>

BetweenText == <<" ", "B", "E", "T", "W", "E", "E", "N", " ", "?", " ", "A", "N", "D", " ", "?">>
NotBetweenText == <<" ", "N", "O", "T">> \o BetweenText

\* C17: an included Between appends one node "col BETWEEN ? AND ?" with the
\* parameters [v1, v2] in that order, NotBetween one node
\* "col NOT BETWEEN ? AND ?" with the same parameters; the fragment is the
\* same with OR pending as without, only the node's connector follows the
\* pending connector, and after Eq(a,1).Or() a JoinOnWrapper builds
\* "a = ? OR col BETWEEN ? AND ?".
C17_BetweenFragment ==
    /\ LastIncluded({"Between", "NotBetween"}) =>
          /\ AppendedOne
          /\ LastNode(Cur).query = LastCall.s[1] \o
                (IF LastCall.m = "Between" THEN BetweenText ELSE NotBetweenText)
          /\ LastNode(Cur).args = <<LastCall.v[1], LastCall.v[2]>>
          /\ LastNode(Cur).isOr = PrevPending
          /\ ~Pending
    /\ (kind = "join" /\ LastIncluded({"Between"})
            /\ Front(hist) = <<CallEq(CA, V1), CallOr>>) =>
          /\ JW_Build(jw).clause =
                <<"a", " ", "=", " ", "?">> \o <<" ", "O", "R", " ">> \o LastCall.s[1] \o BetweenText
          /\ JW_Build(jw).args = <<V1, LastCall.v[1], LastCall.v[2]>>

C17_Witness ==
    /\ kind = "join"
    /\ LastIncluded({"NotBetween"})
    /\ Front(hist) = <<CallEq(CA, V1), CallOr>>
    /\ LastNode(jw).isOr
    /\ LastNode(jw).args = <<V1, V2>>

\* C18: an included In or NotIn appends one node with one placeholder and
\* one parameter, the collection itself, for a collection of no, one or
\* three elements; a JoinOnWrapper then builds one parameter more than
\* before the call.
C18_InBindsOneParameter ==
    LastIncluded({"In", "NotIn"}) =>
        /\ AppendedOne
        /\ CountChar(LastNode(Cur).query, "?") = 1
        /\ Len(LastNode(Cur).args) = 1
        /\ LastNode(Cur).args[1] = LastCall.v[1]
        /\ LastNode(Cur).args[1].list
        /\ kind = "join" => Len(JW_Build(jw).args) = Len(JW_Build(prev.jw).args) + 1

C18_Witness ==
    /\ kind = "delete"
    /\ LastIncluded({"In"})
    /\ LastCall.v[1] = VList
    /\ Len(LastNode(dw).args) = 1

\* C20: what ServiceImpl.Delete issues for a DeleteWrapper follows the
\* wrapper's soft-delete toggle: an update of the deleted marker when it is
\* enabled, a removal when it is disabled, so the same conditions with the
\* other toggle value give other operations.
C20_SoftDeleteToggle ==
    (kind = "delete" /\ svc.op = "Delete" /\ svc.calls = Service_Delete(config, FALSE, dw)) =>
        /\ svc.calls[Len(svc.calls)].op = (IF dw.useSoftDelete THEN "Updates" ELSE "Delete")
        /\ Service_Delete(config, FALSE, DW_UseSoftDelete(dw, ~dw.useSoftDelete)) # svc.calls
        /\ DW_Apply(DW_UseSoftDelete(dw, ~dw.useSoftDelete), NewSession) # DW_Apply(dw, NewSession)

(***************************************************************************)
(* InsertWrapper and ServiceImpl.Insert.                                   *)
(***************************************************************************)
\* the Set calls of this run on a column that were not skipped by their flag
IncludedSets(column) ==
    {i \in 1..Len(hist) :
        hist[i].m = "Set" /\ hist[i].s[1] = column /\ ~IsSkip(hist[i])}

SetColumns == {hist[i].s[1] : i \in 1..Len(hist)}

LastOf(S) == CHOOSE i \in S : \A j \in S : j <= i

\* C21: after any sequence of Set calls the mapping of an InsertWrapper holds
\* exactly the columns set with the include flag absent or true, each with
\* the value of its last included Set; Insert hands this mapping to Create
\* on a context that carries no condition.
C21_InsertMapping ==
    kind = "insert" =>
        /\ DOMAIN iw.values = {c \in SetColumns : IncludedSets(c) # {}}
        /\ \A c \in DOMAIN iw.values : iw.values[c] = hist[LastOf(IncludedSets(c))].v[1]
        /\ svc.op = "Insert" =>
              /\ svc.calls[Len(svc.calls)].op = "Create"
              /\ svc.calls[Len(svc.calls)].args = iw.values
              /\ \A j \in 1..Len(svc.calls) :
                    svc.calls[j].op \in {"Debug", "Model", "Create"}

\* Set(a, 1).Set(a, 2) was inserted: the column went out with its last value
C21_Witness ==
    /\ kind = "insert"
    /\ svc.op = "Insert"
    /\ Len(hist) = 2
    /\ hist[1].s = <<CA>> /\ hist[1].v = <<V1>> /\ ~IsSkip(hist[1])
    /\ hist[2].s = <<CA>> /\ hist[2].v = <<V2>> /\ ~IsSkip(hist[2])
    /\ DOMAIN iw.values = {CA}
    /\ svc.calls[Len(svc.calls)].args[CA] = V2

\* s is the beginning of t
IsPrefix(s, t) == Len(s) <= Len(t) /\ SubSeq(t, 1, Len(s)) = s

\* C23: the node list of JoinOnWrapper, QueryWrapper and DeleteWrapper is
\* append-only: every call leaves the nodes recorded before it (fragment,
\* parameters, connector) as they were and in their order and appends at
\* most one node; a plain Or() or And() appends none and changes none.
C23_AppendOnly ==
    /\ Len(hist) > 0 =>
          /\ IsPrefix(Nodes(Prev), Nodes(Cur))
          /\ Len(Nodes(Cur)) <= Len(Nodes(Prev)) + 1
          /\ (IsPlainOr(LastCall) \/ IsPlainAnd(LastCall)) => Nodes(Cur) = Nodes(Prev)

\* Eq(a, 1).Or().Eq(b, 2): the first node is still an AND node
C23_Witness ==
    /\ kind = "join"
    /\ hist = <<CallEq(CA, V1), CallOr, CallEq(CB, V2)>>
    /\ Len(jw.conditions) = 2
    /\ ~jw.conditions[1].isOr
    /\ jw.conditions[2].isOr
    /\ prev.jw.conditions = <<jw.conditions[1]>>

\* what a builder renders to: Build, or Apply to a new context
Applied(k, w) ==
    CASE k = "join" -> JW_Build(w)
      [] k = "query" -> QW_Apply(w, NewSession)
      [] k = "delete" -> DW_Apply(w, NewSession)

\* the builder w of kind k after one more call c
CallOn(k, w, c) ==
    CASE k = "join" -> JW_Call(w, c)
      [] k = "query" -> QW_Call(w, c)
      [] k = "delete" -> DW_Call(w, c)

\* the nested call c with the last call of its callback taken away
WithoutTrailingOr(c) == [c EXCEPT !.fns = <<Front(c.fns[1])>>]

\* C25: a nested callback works on a new builder of its own: the parent's
\* earlier nodes stay, at most the one grouped node is appended, the group
\* holds the callback's clauses only, and a connector left pending by a
\* trailing Or() in the callback is dropped: the parent is left as by the
\* callback without that Or(), with AND pending, and its next clause is an
\* AND clause.
C25_NestedBuilderIndependent ==
    /\ (Len(hist) > 0 /\ IsNested(LastCall)) =>
          /\ IsPrefix(Nodes(Prev), Nodes(Cur))
          /\ Len(Nodes(Cur)) <= Len(Nodes(Prev)) + 1
          /\ (kind = "join" /\ AppendedOne) =>
                /\ LastNode(Cur).query = InParens(GroupOf(LastCall.fns[1]).clause)
                /\ LastNode(Cur).args = GroupOf(LastCall.fns[1]).args
          /\ LastCall.fns[1] = FnTrailingOr =>
                /\ AppendedOne
                /\ ~Cur.or
                /\ CallOn(kind, Prev, WithoutTrailingOr(LastCall)).or = Cur.or
                /\ Applied(kind, CallOn(kind, Prev, WithoutTrailingOr(LastCall)))
                      = Applied(kind, Cur)
    /\ (Len(hist) > 1 /\ IsNested(hist[Len(hist) - 1])
          /\ hist[Len(hist) - 1].fns[1] = FnTrailingOr
          /\ IsClause(LastCall) /\ AppendedOne) =>
          ~LastNode(Cur).isOr
    /\ (kind \in {"query", "delete"} /\ db.done) =>
          \A n \in 1..Len(Nodes(Cur)) :
              Nodes(Cur)[n].kind \in {"or", "and"} =>
                  /\ db.calls[n].isDB
                  /\ DB_Render(db.calls[n].sub) = GroupOf(Nodes(Cur)[n].f)

\* Eq(b, 2).And(Eq(a, 1).Or()).Eq(b, 2): the clause after the group is an AND
C25_Witness ==
    /\ kind = "join"
    /\ built.done
    /\ hist = <<CallEq(CB, V2), CallAnd(FnTrailingOr), CallEq(CB, V2)>>
    /\ Len(jw.conditions) = 3
    /\ jw.conditions[2].query = <<"(", "a", " ", "=", " ", "?", ")">>
    /\ ~jw.conditions[3].isOr

\* C27: And(fn) attaches its group with the connector that was pending
\* when it was called, on JoinOnWrapper, QueryWrapper and DeleteWrapper:
\* OR after a plain Or(), AND otherwise; Apply hands the group to db.Or or
\* db.Where accordingly; Eq(a,1).Or().And(Eq(a,1).Eq(b,2)) renders
\* "a = ? OR (a = ? AND b = ?)".
C27_AndGroupCapturesPending ==
    /\ (Len(hist) > 0 /\ LastCall.m = "And" /\ IsNested(LastCall) /\ AppendedOne) =>
          /\ LastNode(Cur).isOr = Prev.or
          /\ (Len(hist) > 1 /\ IsPlainOr(hist[Len(hist) - 1])) => LastNode(Cur).isOr
          /\ (Len(hist) = 1 \/ IsClause(hist[Len(hist) - 1])) => ~LastNode(Cur).isOr
    /\ (kind \in {"query", "delete"} /\ db.done) =>
          \A n \in 1..Len(Nodes(Cur)) :
              Nodes(Cur)[n].kind = "and" =>
                  /\ db.calls[n].op = (IF Nodes(Cur)[n].isOr THEN "Or" ELSE "Where")
                  /\ db.calls[n].isDB
    /\ (Rendered /\ hist = <<CallEq(CA, V1), CallOr, CallAnd(FnAB)>>) =>
          /\ Rendering.clause =
                <<"a", " ", "=", " ", "?", " ", "O", "R", " ">> \o InParens(GroupOf(FnAB).clause)
          /\ Rendering.args = <<V1, V1, V2>>
    /\ (Rendered /\ hist = <<CallEq(CA, V1), CallAnd(FnAB)>>) =>
          Rendering.clause =
              <<"a", " ", "=", " ", "?", " ", "A", "N", "D", " ">> \o InParens(GroupOf(FnAB).clause)

\* Eq(a, 1).Or().And(group) was applied by a DeleteWrapper
C27_Witness ==
    /\ kind = "delete"
    /\ db.done
    /\ hist = <<CallEq(CA, V1), CallOr, CallAnd(FnAB)>>
    /\ Len(db.calls) = 2
    /\ db.calls[2].op = "Or"
    /\ db.calls[2].isDB

\* C29: JoinOnWrapper.Build writes no connector before the first node: the
\* clause begins with the first node's fragment whatever connector that
\* node recorded, never with " OR " or " AND ", and Or().Eq("a",1) on a
\* new wrapper builds "a = ?" with the parameter [1].
C29_NoLeadingConnector ==
    (kind = "join" /\ built.done) =>
        /\ Len(jw.conditions) > 0 =>
              /\ IsPrefix(jw.conditions[1].query, built.clause)
              /\ ~HasPrefix(built.clause, <<" ", "O", "R", " ">>)
              /\ ~HasPrefix(built.clause, <<" ", "A", "N", "D", " ">>)
        /\ hist = <<CallOr, CallEq(CA, V1)>> =>
              /\ jw.conditions[1].isOr
              /\ built.clause = <<"a", " ", "=", " ", "?">>
              /\ built.args = <<V1>>

\* Or().Eq(a, 1) was built: the only node is an OR node
C29_Witness ==
    /\ kind = "join"
    /\ built.done
    /\ hist = <<CallOr, CallEq(CA, V1)>>
    /\ Len(jw.conditions) = 1
    /\ jw.conditions[1].isOr
    /\ built.clause = <<"a", " ", "=", " ", "?">>

CallRaw(q) == Call("Raw", <<q>>, <<>>, NoFlag, <<>>)
IsBlankRaw(c) == c.m = "Raw" /\ TrimSpace(c.s[1]) = <<>>

\* C30: on JoinOnWrapper a Raw fragment that is empty or only whitespace
\* appends no node and resets the pending connector to AND, so
\* Or().Raw("  ").Eq(a, 1) records its clause with AND; no node of the
\* condition list has a blank fragment.
C30_BlankFragment ==
    kind = "join" =>
        /\ (Len(hist) > 0 /\ IsBlankRaw(LastCall)) =>
              /\ jw.conditions = prev.jw.conditions
              /\ ~jw.or
        /\ JW_Raw(jw, <<>>, <<>>) = [conditions |-> jw.conditions, or |-> FALSE]
        /\ \A n \in 1..Len(jw.conditions) : TrimSpace(jw.conditions[n].query) # <<>>
        /\ hist = <<CallOr, CallRaw(<<" ", " ">>), CallEq(CA, V1)>> =>
              /\ Len(jw.conditions) = 1
              /\ ~jw.conditions[1].isOr

\* Or().Raw("  ").Eq(a, 1): the blank fragment took the pending OR with it
C30_Witness ==
    /\ kind = "join"
    /\ hist = <<CallOr, CallRaw(<<" ", " ">>), CallEq(CA, V1)>>
    /\ prev.jw = [conditions |-> <<>>, or |-> FALSE]
    /\ Len(jw.conditions) = 1
    /\ ~jw.conditions[1].isOr

\* one call of each comparison operator and of each join method
OperatorCalls ==
    {Call(m, <<CA>>, <<V1>>, cond, <<>>) :
        m \in {"Eq", "Ne", "Gt", "Ge", "Lt", "Le"}, cond \in Conds}
    \cup {Call(m, <<CA>>, <<VX>>, NoFlag, <<>>) : m \in {"Like", "LikeLeft", "LikeRight"}}
    \cup {Call(m, <<CA>>, <<l>>, NoFlag, <<>>) : m \in {"In", "NotIn"}, l \in InLists}
    \cup {Call(m, <<CC>>, <<>>, NoFlag, <<>>) : m \in {"IsNull", "IsNotNull"}}
    \cup {Call(m, <<CA>>, <<V1, V2>>, NoFlag, <<>>) : m \in {"Between", "NotBetween"}}
    \cup {Call(m, <<TU, CA, CB>>, <<>>, NoFlag, <<>>) :
            m \in {"LeftJoin", "RightJoin", "InnerJoin"}}

\* C28: QueryWrapper and DeleteWrapper share one clause grammar: the same
\* sequence of comparison, connector, nested-group and join calls leaves
\* both with the same recorded nodes and the same pending connector, and
\* Apply of both issues the same sequence of Where/Or/Joins operations with
\* the same fragments and parameters; the same holds when a chain that can
\* still grow is followed by one call of any comparison operator or join
\* method.
C28_SharedGrammar ==
    kind \in {"query", "delete"} =>
        /\ Cur = After(kind, hist)
        /\ db.done => db.calls = Applied(kind, Cur)
        /\ After("query", hist).or = After("delete", hist).or
        /\ After("query", hist).scopes = After("delete", hist).scopes
        /\ Applied("query", After("query", hist)) = Applied("delete", After("delete", hist))
        /\ budget > 0 => \A c \in OperatorCalls :
              LET q == QW_Call(After("query", hist), c)
                  d == DW_Call(After("delete", hist), c)
              IN /\ q.or = d.or
                 /\ q.scopes = d.scopes
                 /\ Applied("query", QW_Call(NewQueryWrapper, c))
                       = Applied("delete", DW_Call(NewDeleteWrapper, c))
                 /\ (IsClause(c) \/ c.m \in {"LeftJoin", "RightJoin", "InnerJoin"}) =>
                        Len(d.scopes) = Len(After("delete", hist).scopes) + 1

\* Or().And(group) was applied by a DeleteWrapper as a QueryWrapper does
C28_Witness ==
    /\ kind = "delete"
    /\ db.done
    /\ hist = <<CallOr, CallAnd(FnGtOrNotNull)>>
    /\ Len(db.calls) = 1
    /\ db.calls[1].op = "Or"
    /\ db.calls = Applied("query", After("query", hist))

\* no call of the chain f, nested ones included, is a Raw
RECURSIVE NoRaw(_)
NoRaw(f) ==
    \A i \in 1..Len(f) :
        /\ f[i].m # "Raw"
        /\ f[i].fns # <<>> => NoRaw(f[i].fns[1])

\* every call of the chain f, nested ones included, is one whose parameter
\* is told by its column: a binds 1 (Between: 1 and 2), b binds 2
RECURSIVE ColumnTells(_)
ColumnTells(f) ==
    \A i \in 1..Len(f) :
        /\ f[i].m \in {"Eq", "EqColumn", "Gt", "Between", "IsNull", "IsNotNull", "Or", "And"}
        /\ f[i].fns # <<>> => ColumnTells(f[i].fns[1])

\* the parameters the placeholders of s[i..] stand for, left to right; col
\* is the last column read and k the placeholders seen since
RECURSIVE PlaceholderValues(_, _, _, _)
PlaceholderValues(s, i, col, k) ==
    IF i > Len(s) THEN <<>>
    ELSE IF s[i] \in {"a", "b", "c"} THEN PlaceholderValues(s, i + 1, s[i], 0)
    ELSE IF s[i] = "?"
         THEN <<IF col = "a" /\ k = 0 THEN V1 ELSE V2>> \o PlaceholderValues(s, i + 1, col, k + 1)
         ELSE PlaceholderValues(s, i + 1, col, k)

\* C24: for a JoinOnWrapper built from the operator methods and nested
\* And/Or groups of any depth, without Raw, Build returns as many
\* parameters as the clause has "?" placeholders, in the left-to-right
\* order of the placeholders: the parameters of a nested group sit between
\* those of the clauses before and after it.  The same holds of every
\* recorded node.
C24_ParametersFollowPlaceholders ==
    (kind = "join" /\ NoRaw(hist)) =>
        /\ \A n \in 1..Len(jw.conditions) :
              /\ Len(jw.conditions[n].args) = CountChar(jw.conditions[n].query, "?")
              /\ ColumnTells(hist) =>
                    jw.conditions[n].args = PlaceholderValues(jw.conditions[n].query, 1, "", 0)
        /\ built.done =>
              /\ Len(built.args) = CountChar(built.clause, "?")
              /\ ColumnTells(hist) =>
                    built.args = PlaceholderValues(built.clause, 1, "", 0)

\* Eq(a,1).Or().And(three levels of groups).Between(a,1,2) was built
C24_Witness ==
    /\ kind = "join"
    /\ built.done
    /\ Len(hist) = 4
    /\ SubSeq(hist, 1, 3) = <<CallEq(CA, V1), CallOr, CallAnd(FnDeep)>>
    /\ hist[4].m = "Between"
    /\ built.args = <<V1, V1, V2, V1, V2, V2, V1, V2>>
    /\ CountChar(built.clause, "?") = 8

\* the group of the callbacks with groups inside and with a Raw fragment
NestGroupOf(f) ==
    CASE f = FnRaw -> <<"r", " ", "=", " ", "1">>
      [] f = FnInner -> <<"b", " ", ">", " ", "?", " ", "O", "R", " ">> \o InParens(GroupOf(FnAB).clause)
      [] f = FnDeep ->
            <<"a", " ", "=", " ", "?", " ", "O", "R", " ">>
            \o InParens(<<"b", " ", ">", " ", "?", " ", "O", "R", " ">> \o InParens(GroupOf(FnAB).clause))
            \o <<" ", "A", "N", "D", " ", "b", " ", "=", " ", "?">>
      [] OTHER -> GroupOf(f).clause

\* reading q[i..] with depth parentheses open, the last of them is closed
\* by the last character of q and not before
RECURSIVE ClosesAtEnd(_, _, _)
ClosesAtEnd(q, i, depth) ==
    IF i > Len(q) THEN FALSE
    ELSE LET d == IF q[i] = "(" THEN depth + 1
                  ELSE IF q[i] = ")" THEN depth - 1
                  ELSE depth
         IN IF d = 0 THEN i = Len(q) ELSE ClosesAtEnd(q, i + 1, d)

\* the "(" that opens q is closed by the ")" that ends it
OnePair(q) == Len(q) >= 2 /\ q[1] = "(" /\ ClosesAtEnd(q, 1, 0)

HasSuffix(s, p) == Len(p) <= Len(s) /\ SubSeq(s, Len(s) - Len(p) + 1, Len(s)) = p

CallIsNull(c) == Call("IsNull", <<c>>, <<>>, NoFlag, <<>>)

\* C26: every non-empty nested group of a JoinOnWrapper is recorded as the
\* group's own text inside one pair of parentheses, also when the group is
\* a single clause, so the group's connectors stay inside it;
\* IsNull(c).And(Gt(b,2).Or().IsNotNull(c)).And(Raw("r = 1")) builds a
\* clause that ends with " AND (r = 1)".
C26_GroupInOnePair ==
    kind = "join" =>
        /\ (Len(hist) > 0 /\ IsNested(LastCall) /\ NestGroupOf(LastCall.fns[1]) # <<>>) =>
              /\ Len(jw.conditions) = Len(prev.jw.conditions) + 1
              /\ LastNode(jw).query = InParens(NestGroupOf(LastCall.fns[1]))
              /\ OnePair(LastNode(jw).query)
        /\ \A n \in 1..Len(jw.conditions) :
              jw.conditions[n].query[1] = "(" => OnePair(jw.conditions[n].query)
        /\ (built.done /\ Len(hist) >= 3
              /\ SubSeq(hist, 1, 3) = <<CallIsNull(CC), CallAnd(FnGtOrNotNull), CallAnd(FnRaw)>>) =>
              /\ HasPrefix(built.clause,
                    <<"c", " ", "I", "S", " ", "N", "U", "L", "L", " ", "A", "N", "D", " ">>
                    \o InParens(GroupOf(FnGtOrNotNull).clause)
                    \o <<" ", "A", "N", "D", " ", "(", "r", " ", "=", " ", "1", ")">>)
              /\ Len(hist) = 3 =>
                    HasSuffix(built.clause, <<" ", "A", "N", "D", " ", "(", "r", " ", "=", " ", "1", ")">>)

\* the chain of the README example was built
C26_Witness ==
    /\ kind = "join"
    /\ built.done
    /\ hist = <<CallIsNull(CC), CallAnd(FnGtOrNotNull), CallAnd(FnRaw)>>
    /\ Len(jw.conditions) = 3
    /\ jw.conditions[3].query = <<"(", "r", " ", "=", " ", "1", ")">>
    /\ HasSuffix(built.clause, <<" ", "A", "N", "D", " ", "(", "r", " ", "=", " ", "1", ")">>)

(***************************************************************************)
(* Goroutines that call methods on one builder with no lock.  The builders *)
(* hold no mutex, so the loads and stores of addCondition of one call can  *)
(* fall between those of another.  threads.th[t]: the call of goroutine t, *)
(* where it stands (pc), and its locals isOr and list.  threads.raced: a   *)
(* goroutine took a step while another was inside its call.                *)
(***************************************************************************)
Threads == 1..MaxThreads
Th(t) == threads.th[t]
Inside(t) == Th(t).pc \notin {"start", "done"}

\* addCondition, statement by statement
AC_loadOr(w) == w.or

\* variant: addCondition leaves the pending connector as it is
AC_resetOr_keep(w) == w

AC_resetOr(w) == [w EXCEPT !.or = FALSE]
AC_loadList(k, w) == IF k = "join" THEN w.conditions ELSE w.scopes
\* what append returns: the loaded list and the node of call c with the
\* connector read before
AC_append(k, list, c, isOr) ==
    IF k = "join" THEN JW_Call([conditions |-> list, or |-> isOr], c).conditions
    ELSE QW_Call([scopes |-> list, selects |-> <<>>, or |-> isOr], c).scopes
AC_storeList(k, w, list) ==
    IF k = "join" THEN [w EXCEPT !.conditions = list] ELSE [w EXCEPT !.scopes = list]

\* goroutine t moves on
Advance(t, pc, isOr, list) ==
    threads' = [th |-> [threads.th EXCEPT ![t] =
                            [call |-> Th(t).call, pc |-> pc, isOr |-> isOr, list |-> list]],
                raced |-> threads.raced \/ \E u \in Threads \ {t} : Inside(u)]

\* the shared builder becomes w
SetBuilder(w) ==
    /\ IF kind = "join" THEN jw' = w /\ qw' = qw ELSE qw' = w /\ jw' = jw
    /\ UNCHANGED <<invoked, page, kind, hist, prev, budget, renders, dw, iw, uw, config, built, db, svc>>

KeepBuilder ==
    UNCHANGED <<invoked, page, kind, hist, prev, budget, renders, jw, qw, dw, iw, uw, config, built, db, svc>>

\* isOr := w.or
T_LoadOr ==
    \E t \in DOMAIN threads.th :
        /\ Th(t).pc = "start"
        /\ Th(t).call.m = "Eq"
        /\ Advance(t, "reset", AC_loadOr(Cur), Th(t).list)
        /\ KeepBuilder

\* w.or = false
T_ResetOr ==
    \E t \in DOMAIN threads.th :
        /\ Th(t).pc = "reset"
        /\ Advance(t, "load", Th(t).isOr, Th(t).list)
        /\ SetBuilder(AC_resetOr(Cur))

\* the load of w.conditions or w.scopes for append
T_LoadList ==
    \E t \in DOMAIN threads.th :
        /\ Th(t).pc = "load"
        /\ Advance(t, "store", Th(t).isOr, AC_loadList(kind, Cur))
        /\ KeepBuilder

\* the store of what append returned
T_StoreList ==
    \E t \in DOMAIN threads.th :
        /\ Th(t).pc = "store"
        /\ Advance(t, "done", Th(t).isOr, Th(t).list)
        /\ SetBuilder(AC_storeList(kind, Cur,
                                    AC_append(kind, Th(t).list, Th(t).call, Th(t).isOr)))

\* Or(): w.or = true
T_Or ==
    \E t \in DOMAIN threads.th :
        /\ Th(t).pc = "start"
        /\ Th(t).call.m = "Or"
        /\ Advance(t, "done", Th(t).isOr, Th(t).list)
        /\ SetBuilder(IF kind = "join" THEN JW_Or(jw, <<>>) ELSE QW_Or(qw, <<>>))

\* the call of each goroutine
RaceCalls(t) ==
    IF t = 1 THEN {CallEq(CA, V1)}
    ELSE IF t = 2 THEN {CallEq(CB, V2), CallOr}
    ELSE {CallEq(CC, V1)}

\* the chains made on the builder before it is shared
RacePrefixes == {<<>>, <<CallOr>>, <<CallEq(CC, V2), CallOr>>}

InitRace ==
    \E p \in RacePrefixes :
    \E cs \in [Threads -> UNION {RaceCalls(t) : t \in Threads}] :
        /\ \A t \in Threads : cs[t] \in RaceCalls(t)
        /\ kind \in {"join", "query"}
        /\ hist = p
        /\ prev = NewBuilders
        /\ budget = 0
        /\ renders = 0
        /\ jw = JW_Run(NewJoinOnWrapper, p)
        /\ qw = QW_Run(NewQueryWrapper, p)
        /\ dw = NewDeleteWrapper
        /\ iw = NewInsertWrapper
        /\ uw = NewUpdateWrapper
        /\ config = ZeroConfig
        /\ built = NotBuilt
        /\ db = NotApplied
        /\ svc = NoService
        /\ threads = [th |-> [t \in Threads |->
                                [call |-> cs[t], pc |-> "start", isOr |-> FALSE, list |-> <<>>]],
                      raced |-> FALSE]
        /\ invoked = <<>>
        /\ page = NoPage

NextRace == T_LoadOr \/ T_ResetOr \/ T_LoadList \/ T_StoreList \/ T_Or

SpecRace == InitRace /\ [][NextRace]_vars

AllDone == threads.th # <<>> /\ \A t \in Threads : Th(t).pc = "done"

\* the orders in which the goroutines' calls can be made one after the other
Orders == {s \in [Threads -> Threads] : \A i, j \in Threads : s[i] = s[j] => i = j}

\* the builder after the starting chain and then the calls in the order s
InOrder(s) == After(kind, hist \o [i \in Threads |-> Th(s[i]).call])

\* the shared builder is what the calls made in some order, one after the
\* other, leave
Sequential == \E s \in Orders : Cur = InOrder(s)

ClauseThreads == {t \in Threads : Th(t).call.m = "Eq"}
BaseNodes == Nodes(After(kind, hist))
NewNodes == SubSeq(Nodes(Cur), Len(BaseNodes) + 1, Len(Nodes(Cur)))

\* a clause of a finished call is not in the list
LostClause == AllDone /\ Len(NewNodes) < Cardinality(ClauseThreads)
\* one pending OR ended on two clauses
DoubledOr ==
    AllDone /\ Len(NewNodes) = 2 /\ NewNodes[1].isOr /\ NewNodes[2].isOr

\* C22: the builders have no lock, so goroutines that call operators on
\* one builder can interleave the read of the pending connector, its reset
\* and the append.  Only runs in which no goroutine steps while another is
\* inside its call are sure to end as one of the sequential orders does;
\* whatever the interleaving, the nodes recorded before stay, and no more
\* nodes are added than clauses were called.
C22_SerialRunsAreSequential ==
    threads.th # <<>> =>
        /\ IsPrefix(BaseNodes, Nodes(Cur))
        /\ Len(NewNodes) <= Cardinality(ClauseThreads)
        /\ (AllDone /\ ~threads.raced) => Sequential
        /\ (AllDone /\ ClauseThreads # {}) => Len(NewNodes) >= 1

\* after Or(), Eq(a,1) and Eq(b,2) called by two goroutines are both
\* recorded with OR: the result of neither sequential order
C22_Witness ==
    /\ kind = "query"
    /\ hist = <<CallOr>>
    /\ AllDone
    /\ threads.raced
    /\ ~Sequential
    /\ DoubledOr

(***************************************************************************)
(* Callbacks: when they run.                                               *)
(***************************************************************************)
JoinOnMethods == {"LeftJoinOn", "RightJoinOn", "InnerJoinOn"}

\* the callbacks call c hands over that are kept: the first of Or and And,
\* every one of a ...JoinOn method that is not nil
RECURSIVE KeptBuilders(_)
KeptBuilders(bs) ==
    IF bs = <<>> THEN <<>>
    ELSE (IF Head(bs).nil THEN <<>> ELSE <<Head(bs).calls>>) \o KeptBuilders(Tail(bs))

HandedBy(c) ==
    IF c.m \in {"Or", "And"} THEN (IF c.fns = <<>> THEN <<>> ELSE <<c.fns[1]>>)
    ELSE IF c.m \in JoinOnMethods THEN KeptBuilders(c.fns)
    ELSE <<>>

\* The callbacks handed over along the chain f, each followed by those
\* handed over inside it.  on: the chain is made on a JoinOnWrapper.  Each
\* comes with the method it was handed to and the kind of builder it is for:
\* that of the receiver for Or and And, a JoinOnWrapper for a join.
RECURSIVE Handed(_, _)
RECURSIVE HandedEach(_, _, _)
HandedEach(gs, m, on) ==
    IF gs = <<>> THEN <<>>
    ELSE <<[f |-> Head(gs), m |-> m, on |-> on]>> \o Handed(Head(gs), on)
         \o HandedEach(Tail(gs), m, on)

Handed(f, on) ==
    IF f = <<>> THEN <<>>
    ELSE HandedEach(HandedBy(Head(f)), Head(f).m, on \/ Head(f).m \in JoinOnMethods)
         \o Handed(Tail(f), on)

\* invocation v ran on a builder made for it: for Or and And an empty
\* wrapper of the receiver's type, for a join its ON wrapper, which starts
\* with the key equality
OnNewBuilder(v, e) ==
    IF e.m \in JoinOnMethods
    THEN /\ Len(v.on.conditions) >= 1
         /\ v.on.conditions[1] = JW_EqColumn(NewJoinOnWrapper, CA, CB, <<>>).conditions[1]
    ELSE v.on = IF e.on THEN NewJoinOnWrapper
                ELSE IF kind = "query" THEN NewQueryWrapper ELSE NewDeleteWrapper

\* C31: QueryWrapper and DeleteWrapper run no callback while they are
\* chained: And(f), Or(f) and the ...JoinOn methods only record it.  Each
\* Apply runs every recorded callback once, in call order, on a builder made
\* for that run, so that after k Applies each was run k times.
\* JoinOnWrapper.And and Or run the callback once, before they return, and
\* Build runs none.
C31_CallbacksRunOnApply ==
    LET e == Handed(hist, kind = "join")
    IN /\ kind \in {"query", "delete"} =>
            /\ Len(invoked) = db.n * Len(e)
            /\ \A i \in 1..Len(invoked) :
                    LET x == e[((i - 1) % Len(e)) + 1]
                    IN /\ invoked[i].f = x.f
                       /\ OnNewBuilder(invoked[i], x)
                       /\ i > Len(e) => invoked[i] = invoked[i - Len(e)]
       /\ kind = "join" =>
            /\ Len(invoked) = Len(e)
            /\ \A i \in 1..Len(invoked) :
                    invoked[i] = Invocation(e[i].f, NewJoinOnWrapper)

\* two Applies of a query with a group and a join whose builder holds a
\* group: three callbacks, each run twice
C31_Witness ==
    /\ kind = "query"
    /\ db.n = 2
    /\ Len(hist) = 2
    /\ hist[1].m = "And" /\ hist[1].fns = <<FnAB>>
    /\ hist[2].m = "LeftJoinOn" /\ hist[2].fns = <<Builder(FnAndGroup)>>
    /\ Len(invoked) = 6
    /\ invoked[4].f = FnAB

(***************************************************************************)
(* Apply: the projection and the scopes.                                   *)
(***************************************************************************)
\* the chain h without its Select calls
RECURSIVE WithoutSelect(_)
WithoutSelect(h) ==
    IF h = <<>> THEN <<>>
    ELSE (IF Head(h).m = "Select" THEN <<>> ELSE <<Head(h)>>) \o WithoutSelect(Tail(h))

\* what each of the scopes issues on a context of its own, one after the other
RECURSIVE EachScopeOnce(_)
EachScopeOnce(scopes) ==
    IF scopes = <<>> THEN <<>>
    ELSE QW_scope(Head(scopes), NewSession) \o EachScopeOnce(Tail(scopes))

\* C32: QueryWrapper.Apply issues the projection first and only when a
\* column was selected: one db.Select with the columns of all Select calls
\* in call order.  After it come the operations of every recorded scope,
\* each scope run once, in the order the builder methods were called; where
\* in the chain Select was called makes no difference.
C32_ProjectionThenScopes ==
    (kind = "query" /\ db.done) =>
        LET sel == SelectedBy(hist)
            first == IF sel # <<>> THEN DB_Select(NewSession, sel) ELSE NewSession
        IN /\ qw.selects = sel
           /\ db.calls = first \o EachScopeOnce(qw.scopes)
           /\ \A i \in 1..Len(db.calls) : db.calls[i].op = "Select" => (i = 1 /\ sel # <<>>)
           /\ qw.scopes = QW_Run(NewQueryWrapper, WithoutSelect(hist)).scopes
           /\ db.calls = first \o QW_Apply(QW_Run(NewQueryWrapper, WithoutSelect(hist)), NewSession)

\* Select(a), then Select(b, c): one projection of a, b, c
C32_Witness ==
    /\ kind = "query"
    /\ db.n = 1
    /\ Len(hist) = 2
    /\ hist[1].m = "Select" /\ hist[1].s = <<CA>>
    /\ hist[2].m = "Select" /\ hist[2].s = <<CB, CC>>
    /\ db.calls = DB_Select(NewSession, <<CA, CB, CC>>)

(***************************************************************************)
(* The soft-delete toggle of a DeleteWrapper.                              *)
(***************************************************************************)
\* the toggle the chain h asks for: that of its last UseSoftDelete call
RECURSIVE ToggleAfter(_, _)
ToggleAfter(h, b) ==
    IF h = <<>> THEN b
    ELSE ToggleAfter(Tail(h), IF Head(h).m = "UseSoftDelete"
                              THEN Head(h).s[1] = <<"true">> ELSE b)

\* a callback that switches the toggle of the wrapper it is handed
FnToggleOff == <<Call("UseSoftDelete", <<<<"false">>>>, <<>>, NoFlag, <<>>)>>

\* C33: a new DeleteWrapper has the soft-delete toggle on.  UseSoftDelete(b)
\* sets the toggle to b and leaves the recorded scopes and the pending
\* connector as they were; no comparison, connector, nested-group or join
\* call changes the toggle, not even a group whose callback switches the
\* toggle of its own sub-wrapper.
C33_ToggleOnlyByUseSoftDelete ==
    kind = "delete" =>
        /\ NewDeleteWrapper.useSoftDelete
        /\ hist = <<>> => dw = NewDeleteWrapper
        /\ dw.useSoftDelete = ToggleAfter(hist, TRUE)
        /\ hist # <<>> =>
              IF hist[Len(hist)].m = "UseSoftDelete"
              THEN /\ dw.scopes = prev.dw.scopes
                   /\ dw.or = prev.dw.or
              ELSE dw.useSoftDelete = prev.dw.useSoftDelete
        /\ \A b \in BOOLEAN :
              /\ DW_UseSoftDelete(dw, b).useSoftDelete = b
              /\ DW_UseSoftDelete(dw, b).scopes = dw.scopes
              /\ DW_UseSoftDelete(dw, b).or = dw.or
        /\ \A c \in OperatorCalls : DW_Call(dw, c).useSoftDelete = dw.useSoftDelete
        /\ \A m \in {"Or", "And"} :
              DW_Call(dw, Call(m, <<>>, <<>>, NoFlag, <<FnToggleOff>>)).useSoftDelete
                 = dw.useSoftDelete

\* Or() and then UseSoftDelete(false): the toggle is off and OR still pending
C33_Witness ==
    /\ kind = "delete"
    /\ Len(hist) = 2
    /\ hist[1].m = "Or" /\ hist[1].fns = <<>>
    /\ hist[2].m = "UseSoftDelete"
    /\ ~dw.useSoftDelete
    /\ dw.or
    /\ prev.dw.useSoftDelete

(***************************************************************************)
(* Pages.                                                                  *)
(***************************************************************************)
\* x is in the range of the integers of a Page
Fits(x) == MinInt <= x /\ x <= MaxInt

\* the statement of the find of the last Page call, when one was issued
FindIssued == svc.op = "Page" /\ Len(svc.calls) = 2
FindStatement == svc.calls[2]
\* the arguments of the calls of operation op in statement d, in order
RECURSIVE ArgsOf(_, _)
ArgsOf(d, op) ==
    IF d = <<>> THEN <<>>
    ELSE (IF Head(d).op = op THEN <<Head(d).args[1]>> ELSE <<>>) \o ArgsOf(Tail(d), op)

\* C34: Page.Offset is (Current - 1) * Size when Current > 0 and 0
\* otherwise, and Page.Limit is Size, for negative, zero and positive Current
\* and Size.  ServiceImpl.Page puts an offset and a limit on the find exactly
\* when Size > 0; the limit is then positive, and the offset is not negative
\* as long as the product is in the integer range (outside it the product
\* wraps around, as the last conjunct states).
C34_OffsetAndLimit ==
    LET c == page.Current
        s == page.Size
    IN /\ Page_Limit(page) = s
       /\ c <= 0 => Page_Offset(page) = 0
       /\ (c > 0 /\ Fits((c - 1) * s)) =>
             /\ Page_Offset(page) = (c - 1) * s
             /\ s > 0 => Page_Offset(page) >= 0
       /\ FindIssued =>
             /\ s > 0 =>
                   /\ ArgsOf(FindStatement, "Offset") = <<Page_Offset(page)>>
                   /\ ArgsOf(FindStatement, "Limit") = <<s>>
                   /\ ArgsOf(FindStatement, "Limit")[1] > 0
                   /\ Fits((c - 1) * s) => ArgsOf(FindStatement, "Offset")[1] >= 0
             /\ s <= 0 =>
                   /\ ArgsOf(FindStatement, "Offset") = <<>>
                   /\ ArgsOf(FindStatement, "Limit") = <<>>
       /\ Fits(Page_Offset(page))
       /\ c > 0 => (Page_Offset(page) - (c - 1) * s) % (2 ^ IntBits) = 0

\* page 3 of size 2: the find skips 4 rows and takes 2
C34_Witness ==
    /\ FindIssued
    /\ page.Current = 3
    /\ page.Size = 2
    /\ ArgsOf(FindStatement, "Offset") = <<4>>
    /\ ArgsOf(FindStatement, "Limit") = <<2>>

\* statement d without its offset and limit
RECURSIVE Unpaged(_)
Unpaged(d) ==
    IF d = <<>> THEN <<>>
    ELSE (IF Head(d).op \in {"Offset", "Limit"} THEN <<>> ELSE <<Head(d)>>) \o Unpaged(Tail(d))

\* the operations of statement d
OpsOf(d) == {d[i].op : i \in 1..Len(d)}

\* C35: ServiceImpl.Page counts before it fetches.  The count is issued
\* first, on the context with the wrapper applied and without offset or
\* limit.  When the count fails the error is returned, no find is issued
\* and the page is as it was.  Otherwise page.Total is the count; when it
\* is 0 the page is returned, no find is issued and Records is as it was.
\* Otherwise the find is issued on the same conditions, with the offset and
\* the limit as its last operations when Size > 0.
C35_CountBeforeFind ==
    svc.op = "Page" =>
        LET b == svc.before
            in == svc.in
            n == Len(svc.calls)
            counted == svc.calls[1]
            model == Append(Service_getDB(config), DBCall("Model", <<>>, <<>>, FALSE, <<>>))
        IN /\ n \in {1, 2}
           /\ counted[Len(counted)].op = "Count"
           /\ OpsOf(counted) \cap {"Offset", "Limit", "Find"} = {}
           /\ Front(counted) = IF svc.isNil THEN model ELSE QW_Apply(qw, model)
           /\ n = 2 =>
                 LET found == svc.calls[2]
                 IN /\ found[Len(found)].op = "Find"
                    /\ "Count" \notin OpsOf(found)
                    /\ Unpaged(Front(found)) = Front(counted)
                    /\ b.Size > 0 =>
                          /\ Len(found) = Len(counted) + 2
                          /\ found[Len(found) - 2].op = "Offset"
                          /\ found[Len(found) - 1].op = "Limit"
                    /\ b.Size <= 0 => Front(found) = Front(counted)
           /\ in.countErr =>
                 /\ n = 1
                 /\ svc.ret = "nil" /\ svc.err
                 /\ page = b
           /\ (~in.countErr /\ in.total = 0) =>
                 /\ n = 1
                 /\ svc.ret = "page" /\ ~svc.err
                 /\ page = [b EXCEPT !.Total = 0]
                 /\ page.Records = b.Records
           /\ (~in.countErr /\ in.total > 0) =>
                 /\ n = 2
                 /\ page.Total = in.total
                 /\ page.Current = b.Current /\ page.Size = b.Size
                 /\ in.findErr => (svc.ret = "nil" /\ svc.err /\ page.Records = b.Records)
                 /\ ~in.findErr => (svc.ret = "page" /\ ~svc.err /\ page.Records = in.rows)

\* a page filled by an earlier call is handed over again and the count is
\* 0: no find, Total is 0 and the two records are still there
C35_Witness ==
    /\ svc.op = "Page"
    /\ ~svc.in.countErr
    /\ svc.in.total = 0
    /\ svc.before.Total = 2
    /\ svc.before.Records = <<"r1", "r2">>
    /\ Len(svc.calls) = 1
    /\ page.Total = 0
    /\ page.Records = <<"r1", "r2">>

====
